---- MODULE Spec2Model ----
(***************************************************************************)
(* A model of cellbase's tables (src/cellbase/celltable.py): the          *)
(* row/column index of a worksheet, the condition evaluator and the        *)
(* insert / update / delete / traverse / query operations of               *)
(* LocalCelltable over the worksheet's physical cell store, and the        *)
(* insert / update / traverse operations of GoogleCelltable over a remote  *)
(* worksheet that counts the requests it receives.                         *)
(*                                                                         *)
(* Cells are objects: rows, cols and the worksheet's _cells hold           *)
(* references to them, so the model keeps a heap of cells and the three    *)
(* structures hold cell identities.                                        *)
(***************************************************************************)
EXTENDS Integers, Sequences, FiniteSets, TLC

\* ------------------------------------------------------------------ bounds

\* Largest number of physical data rows the worksheet is allowed to grow to.
MaxRows == 3

\* Largest number of calls in one run.
MaxCalls == 5

\* The longest sequence of calls explored on the remote backend, whose
\* states are many more.
MaxRemoteCalls == 4

\* The longest sequence of calls explored on one formatter object.
MaxFormatterCalls == 4

\* The longest sequence of calls explored on one cellbase.
MaxCellbaseCalls == 5

\* The most data rows of a worksheet a remote table is constructed from.
MaxFetchedRows == 3

\* The longest sequence of inserts explored on a table so constructed.
MaxFetchCalls == 2

\* The most data rows of a worksheet a local table is constructed from.
MaxLoadedRows == 2

\* The longest sequence of calls explored on a table so constructed.
MaxLoadCalls == 2

\* The cell values a caller writes (both columns).
Vals == {0, 1}

\* The values the cells of a fetched worksheet hold: pygsheets gives the
\* displayed text, '' for an empty cell.
FetchedVals == {"", "0", "1"}

\* ------------------------------------------------------- program constants

\* DAO.COL_ROW_IDX, the reserved key of the row index.
COL_ROW_IDX == "row_idx"

\* The schema registered by the test suite: {"Simple": ["id", "name"]}.
Schema == <<"id", "name">>

\* The value of a call that returns nothing (a bare `return`, or a raise).
RetNone == -1

\* The value None of a header cell without text.
NoHeader == "None"

\* ------------------------------------------------------------------ state

VARIABLES
    heap,            \* cell identity -> the cell object (row, col_idx, value)
    rows,            \* Celltable.rows: OrderedDict row index -> {column name -> cell}
    cols,            \* Celltable.cols: column name -> list of cells
    col_ids,         \* Celltable.col_ids: the header cells that have a value
    ws_cells,        \* worksheet._cells: (row, column) -> cell
    ws_current_row,  \* worksheet._current_row
    backend,         \* "local": LocalCelltable on openpyxl; "remote": GoogleCelltable
    _max_row,        \* GoogleCelltable._max_row
    grid,            \* the remote worksheet: the values of its rows
    net,             \* the requests the latest call sent to the remote
                     \* worksheet, by method
    calls,           \* the number of calls made so far
    held,            \* the formatter object the caller holds: whether one was
                     \* constructed, and its __dict__
    celltables,      \* Cellbase.celltables: the worksheet names that have a table
    schemas,         \* Cellbase.schemas: the worksheet names with a registered schema
    worksheets       \* Cellbase.workbook: the titles of its sheets, in order

vars == <<heap, rows, cols, col_ids, ws_cells, ws_current_row, backend, _max_row,
          grid, net, calls, held, celltables, schemas, worksheets>>

\* No request has been sent to the remote worksheet.
NoRequests ==
    [method \in {"get_all_values", "insert_rows", "get_row", "update_cells",
                 "update_value", "delete_rows", "get_values"} |-> 0]

\* The table as one value: what an operation reads and what it leaves
\* behind.  A call starts with no request sent; batch is the cell list of
\* the update_cells request the call sends.
Table == [heap |-> heap, rows |-> rows, cols |-> cols, col_ids |-> col_ids,
          ws_cells |-> ws_cells, ws_current_row |-> ws_current_row,
          _max_row |-> _max_row, grid |-> grid, net |-> NoRequests,
          batch |-> <<>>]

\* ------------------------------------------------------------ small helpers

Min(S) == CHOOSE x \in S : \A y \in S : x <= y

Max(S) == CHOOSE x \in S : \A y \in S : x >= y

\* x in seq (Python's `x in list`)
InSeq(x, seq) == \E i \in 1..Len(seq) : seq[i] = x

\* ------------------------------------------------------------- the cell heap

\* Cell(worksheet, row=, column=, value=)
\* style holds the formatting attributes that have been set on the cell.
Cell(r, c, v) == [row |-> r, col |-> c, value |-> v, style |-> <<>>]

\* The identities rows, cols and the worksheet refer to.
Live(rws, cls, wsc) ==
    UNION {{rws[i].cells[c] : c \in DOMAIN rws[i].cells} : i \in 1..Len(rws)}
        \cup UNION {{cls[c][i] : i \in 1..Len(cls[c])} : c \in DOMAIN cls}
        \cup {wsc[p] : p \in DOMAIN wsc}

\* n identities of new objects: the smallest ones not in use.
RECURSIVE FreshIds(_, _)
FreshIds(used, n) ==
    IF n = 0 THEN <<>>
    ELSE LET x == Min((1..(Cardinality(used) + 1)) \ used)
         IN  <<x>> \o FreshIds(used \cup {x}, n - 1)

\* Objects nothing refers to any more are gone.
Collect(t) ==
    [t EXCEPT !.heap = [i \in Live(t.rows, t.cols, t.ws_cells) |-> t.heap[i]]]

\* ------------------------------------------------ OrderedDict (self.rows)

\* The keys in iteration order.
KeysOf(rws) == [i \in 1..Len(rws) |-> rws[i].k]

KeySet(rws) == {rws[i].k : i \in 1..Len(rws)}

\* self.rows[k]
DictGet(rws, k) == rws[CHOOSE i \in 1..Len(rws) : rws[i].k = k].cells

\* self.rows.pop(k), for a key that is present
DictPop(rws, k) == SelectSeq(rws, LAMBDA e : e.k # k)

\* self.rows[k] = v: an existing key keeps its place, a new key goes last
DictSet(rws, k, v) ==
    IF k \in KeySet(rws)
    THEN [i \in 1..Len(rws) |-> IF rws[i].k = k THEN [k |-> k, cells |-> v] ELSE rws[i]]
    ELSE Append(rws, [k |-> k, cells |-> v])

\* collections.OrderedDict(sorted(self.rows.items()))
RECURSIVE SortedDict(_)
SortedDict(rws) ==
    IF rws = <<>> THEN <<>>
    ELSE LET m == Min(KeySet(rws))
         IN  <<[k |-> m, cells |-> DictGet(rws, m)]>> \o SortedDict(DictPop(rws, m))

\* ------------------------------------------------------- the worksheet

\* worksheet.max_row: the largest row of _cells, 1 for an empty sheet
MaxRowOf(wsc) == IF DOMAIN wsc = {} THEN 1 ELSE Max({p[1] : p \in DOMAIN wsc})

\* worksheet.append(iterable) for a dict {col_idx: value}, given as a sequence
\* of [col, value]: one new cell per entry in row _current_row + 1.
WsAppend(t, entries) ==
    LET r    == t.ws_current_row + 1
        ids  == FreshIds(Live(t.rows, t.cols, t.ws_cells), Len(entries))
        new  == {<<r, entries[i].col>> : i \in 1..Len(entries)}
        idOf(p) == ids[CHOOSE i \in 1..Len(entries) : entries[i].col = p[2]]
    IN  [t EXCEPT
            !.heap = [i \in DOMAIN t.heap \cup {ids[j] : j \in 1..Len(ids)} |->
                        IF \E j \in 1..Len(ids) : ids[j] = i
                        THEN LET j == CHOOSE j \in 1..Len(ids) : ids[j] = i
                             IN  Cell(r, entries[j].col, entries[j].value)
                        ELSE t.heap[i]],
            !.ws_cells = [p \in DOMAIN t.ws_cells \cup new |->
                            IF p \in new THEN idOf(p) ELSE t.ws_cells[p]],
            !.ws_current_row = r]

\* LocalCelltable.safe_append: append at max_row + 1 (or at row 1) and put
\* the worksheet's cursor back.
safe_append(t, entries, first_row) ==
    LET orig_current_row == t.ws_current_row
        pinned   == [t EXCEPT !.ws_current_row =
                        IF first_row THEN 0 ELSE MaxRowOf(t.ws_cells)]
        appended == WsAppend(pinned, entries)
    IN  [appended EXCEPT !.ws_current_row = orig_current_row]

\* LocalCelltable.__init__ on a worksheet that holds the cells of sheet (the
\* matrix of their values, row 1 the header): col_ids are the header cells
\* whose value is not None, and every row from row 2 on is registered with
\* its cells under those columns.  worksheet[1] and iter_rows hand out the
\* worksheet's own cells.
LocalCelltable__init__(sheet) ==
    LET width    == Len(sheet[1])
        id(r, c) == (r - 1) * width + c
        header   == [c \in 1..width |-> [value |-> sheet[1][c], col_idx |-> c]]
        col_ids_ == SelectSeq(header, LAMBDA col_id : col_id.value # NoHeader)
        names    == {col_ids_[i].value : i \in 1..Len(col_ids_)}
        col_of(name) == col_ids_[CHOOSE i \in 1..Len(col_ids_) :
                                     col_ids_[i].value = name].col_idx
    IN  [heap |-> [i \in 1..(Len(sheet) * width) |->
                      LET r == 1 + ((i - 1) \div width)
                          c == 1 + ((i - 1) % width)
                      IN  Cell(r, c, sheet[r][c])],
         ws_cells |-> [q \in (1..Len(sheet)) \X (1..width) |-> id(q[1], q[2])],
         ws_current_row |-> Len(sheet),
         col_ids |-> col_ids_,
         cols |-> [name \in names |->
                      [i \in 1..(Len(sheet) - 1) |-> id(i + 1, col_of(name))]],
         rows |-> [i \in 1..(Len(sheet) - 1) |->
                      [k |-> i + 1,
                       cells |-> [name \in names |-> id(i + 1, col_of(name))]]],
         _max_row |-> 0, grid |-> <<>>, net |-> NoRequests, batch |-> <<>>]

\* ------------------------------------------------ the condition evaluator

\* A where is None or a dict; the dict is the sequence of its clauses
\* [key, cond] in insertion order.  A cond is a literal or a one-argument
\* predicate; `s` is the set of arguments it accepts (for a literal, the value).
NoWhere == [none |-> TRUE, clauses |-> <<>>]

Dict(clauses) == [none |-> FALSE, clauses |-> clauses]

Lit(v) == [callable |-> FALSE, s |-> {v}]

Pred(S) == [callable |-> TRUE, s |-> S]

Clause(key, cond) == [key |-> key, cond |-> cond]

\* `cond(x) if callable(cond) else x == cond` (for the row index, `x == int(cond)`)
Holds(cond, x) == x \in cond.s

\* DAO.COL_ROW_IDX in where
HasRowClause(where) ==
    \E i \in 1..Len(where.clauses) : where.clauses[i].key = COL_ROW_IDX

\* where[DAO.COL_ROW_IDX]
RowCond(where) ==
    where.clauses[CHOOSE i \in 1..Len(where.clauses) :
                      where.clauses[i].key = COL_ROW_IDX].cond

\* int(cond) of a literal row index
IntOf(cond) == CHOOSE v \in cond.s : TRUE

\* The scan of one column (lines 167-169).  The condition of line 168 parses as
\* `(cell.row not in row_idxs and cond(cell.value)) if callable(cond)
\*  else (cell.value == cond)`: a literal clause appends without looking at
\* row_idxs.
RECURSIVE ScanCol(_, _, _, _)
ScanCol(cells, cond, hp, row_idxs) ==
    IF cells = <<>> THEN row_idxs
    ELSE LET cell == hp[Head(cells)]
             hit  == IF cond.callable
                     THEN ~InSeq(cell.row, row_idxs) /\ Holds(cond, cell.value)
                     ELSE Holds(cond, cell.value)
         IN  ScanCol(Tail(cells), cond, hp,
                     IF hit THEN Append(row_idxs, cell.row) ELSE row_idxs)

\* The loop over where.items() (lines 164-169); self.cols[col_name] raises
\* KeyError for a name that is no column.
RECURSIVE ScanClauses(_, _, _)
ScanClauses(clauses, t, row_idxs) ==
    IF clauses = <<>> THEN [err |-> "none", val |-> row_idxs]
    ELSE LET cl == Head(clauses)
         IN  IF cl.key = COL_ROW_IDX THEN ScanClauses(Tail(clauses), t, row_idxs)
             ELSE IF cl.key \notin DOMAIN t.cols
                  THEN [err |-> "KeyError", val |-> row_idxs]
                  ELSE ScanClauses(Tail(clauses), t,
                                   ScanCol(t.cols[cl.key], cl.cond, t.heap, row_idxs))

\* A search that passes over the clauses on a name that is no column.
_row_idxs_where_SkipUnknown(where, t) ==
    LET known == SelectSeq(where.clauses,
                           LAMBDA cl : cl.key = COL_ROW_IDX \/ cl.key \in DOMAIN t.cols)
        by_row_idx ==
            IF ~HasRowClause(where) THEN <<>>
            ELSE IF RowCond(where).callable
                 THEN SelectSeq(KeysOf(t.rows), LAMBDA r : Holds(RowCond(where), r))
                 ELSE IF IntOf(RowCond(where)) \in KeySet(t.rows)
                      THEN <<IntOf(RowCond(where))>>
                      ELSE <<>>
    IN  IF where.none THEN [err |-> "none", val |-> KeysOf(t.rows)]
        ELSE ScanClauses(known, t, by_row_idx)

\* Celltable._row_idxs_where: the rows on which any clause holds.
_row_idxs_where(where, t) ==
    IF where.none THEN [err |-> "none", val |-> KeysOf(t.rows)]
    ELSE LET by_row_idx ==
                 IF ~HasRowClause(where) THEN <<>>
                 ELSE IF RowCond(where).callable
                      THEN SelectSeq(KeysOf(t.rows), LAMBDA r : Holds(RowCond(where), r))
                      ELSE IF IntOf(RowCond(where)) \in KeySet(t.rows)
                           THEN <<IntOf(RowCond(where))>>
                           ELSE <<>>
         IN  ScanClauses(where.clauses, t, by_row_idx)

\* Celltable._col_names_where for a dict: the clauses that hold on one row;
\* self.rows[row_idx][col_name] raises KeyError for a missing row or column.
RECURSIVE ColNamesLoop(_, _, _, _)
ColNamesLoop(clauses, row_idx, t, col_names) ==
    IF clauses = <<>> THEN [err |-> "none", val |-> col_names]
    ELSE LET cl == Head(clauses)
         IN  IF cl.key = COL_ROW_IDX
             THEN ColNamesLoop(Tail(clauses), row_idx, t,
                               IF Holds(cl.cond, row_idx)
                               THEN Append(col_names, cl.key) ELSE col_names)
             ELSE IF row_idx \notin KeySet(t.rows)
                     \/ cl.key \notin DOMAIN DictGet(t.rows, row_idx)
                  THEN [err |-> "KeyError", val |-> col_names]
                  ELSE LET cell == t.heap[DictGet(t.rows, row_idx)[cl.key]]
                       IN  ColNamesLoop(Tail(clauses), row_idx, t,
                                        IF Holds(cl.cond, cell.value)
                                        THEN Append(col_names, cl.key) ELSE col_names)

_col_names_where(row_idx, where, t) ==
    IF where.none
    THEN [err |-> "none", val |-> [i \in 1..Len(t.col_ids) |-> t.col_ids[i].value]]
    ELSE ColNamesLoop(where.clauses, row_idx, t, <<>>)

\* The filter of _row_and_col_where (lines 209-212).
RECURSIVE FilterAll(_, _, _, _)
FilterAll(row_idxs_where, where, t, row_idxs) ==
    IF row_idxs_where = <<>> THEN [err |-> "none", val |-> row_idxs]
    ELSE LET names == _col_names_where(Head(row_idxs_where), where, t)
         IN  IF names.err # "none" THEN [err |-> names.err, val |-> row_idxs]
             ELSE FilterAll(Tail(row_idxs_where), where, t,
                            IF Len(names.val) = Len(where.clauses)
                            THEN Append(row_idxs, Head(row_idxs_where))
                            ELSE row_idxs)

\* Celltable._row_and_col_where: the rows on which every clause holds.
_row_and_col_where(where, t) ==
    LET row_idxs_where == _row_idxs_where(where, t)
    IN  IF row_idxs_where.err # "none" \/ where.none THEN row_idxs_where
        ELSE FilterAll(row_idxs_where.val, where, t, <<>>)

\* ------------------------------------------------------------------ query

\* One record of a query result: the row index and the row's cell values.
RowRecord(row_idx, t) ==
    [row_idx |-> row_idx,
     values  |-> [c \in DOMAIN DictGet(t.rows, row_idx) |->
                     t.heap[DictGet(t.rows, row_idx)[c]].value]]

\* LocalCelltable.query
query(where, t) ==
    LET found == _row_and_col_where(where, t)
    IN  IF found.err # "none" THEN [err |-> found.err, val |-> <<>>]
        ELSE IF \E i \in 1..Len(found.val) : found.val[i] \notin KeySet(t.rows)
             THEN [err |-> "KeyError", val |-> <<>>]
             ELSE [err |-> "none",
                   val |-> [i \in 1..Len(found.val) |-> RowRecord(found.val[i], t)]]

\* A query that takes the first row out of rows.
Queried_Consumed(where, t) ==
    [t EXCEPT !.rows = IF @ = <<>> THEN @ ELSE Tail(@)]

\* The table query(where) leaves.  query (lines 299-306, 429-436) and the
\* where methods it calls (lines 142-213) read self.rows, self.cols and the
\* cells' row and value; they assign to local lists only and call nothing
\* of the worksheet.
Queried(where, t) == t

\* ------------------------------------------------------- results of a call

\* The call returned ret and left the table t.
Ok(ret, t) == [err |-> "none", ret |-> ret, t |-> Collect(t)]

\* The call raised err and left the table t.
Raise(err, t) == [err |-> err, ret |-> RetNone, t |-> Collect(t)]

\* ----------------------------------------------------------------- insert

\* The cells of row r of the worksheet under the schema columns.
CellsOfRow(t, r) ==
    [c \in DOMAIN t.cols |->
        t.ws_cells[<<r, t.col_ids[CHOOSE i \in 1..Len(t.col_ids) :
                                     t.col_ids[i].value = c].col_idx>>]]

\* LocalCelltable.insert; value_in_dict[col_id.value] raises KeyError for a
\* column the dict lacks, before the worksheet is touched.
insert(value_in_dict, t) ==
    IF \E i \in 1..Len(t.col_ids) : t.col_ids[i].value \notin DOMAIN value_in_dict
    THEN Raise("KeyError", t)
    ELSE LET entries  == [i \in 1..Len(t.col_ids) |->
                            [col   |-> t.col_ids[i].col_idx,
                             value |-> value_in_dict[t.col_ids[i].value]]]
             appended == safe_append(t, entries, FALSE)
             new_row_idx == MaxRowOf(appended.ws_cells)
             new_row  == CellsOfRow(appended, new_row_idx)
         IN  Ok(new_row_idx,
                [appended EXCEPT
                    !.rows = DictSet(@, new_row_idx, new_row),
                    !.cols = [c \in DOMAIN @ |-> Append(@[c], new_row[c])]])

\* --------------------------------------------------------------- traverse

\* A mutator fn(cell).  SetValue(v) is `lambda cell: set_cell_value(cell, v)`;
\* FromDict(d) is the closure update() builds, which writes
\* d[self._col_idx_to_col_id(cell.col_idx).value]; NotCallable is any value
\* that is no function.
SetValue(v) == [callable |-> TRUE, kind |-> "value", v |-> v, d |-> <<>>]

FromDict(d) == [callable |-> TRUE, kind |-> "dict", v |-> 0, d |-> d]

NotCallable == [callable |-> FALSE, kind |-> "none", v |-> 0, d |-> <<>>]

\* Celltable._col_idx_to_col_id
_col_idx_to_col_id(col_idx, t) == t.col_ids[col_idx]

\* --------------------------------------------------------- CellFormatter

\* The formatting attributes of the model: the first two of
\* LocalCellFormatter.ATTRIBUTES.
ATTRIBUTES == {"font", "fill"}

\* The formatting attributes of GoogleCellFormatter in the model: two of
\* GoogleCellFormatter.ATTRIBUTES.
G_ATTRIBUTES == {"color", "note"}

\* LocalCellFormatter.attrs, GoogleCellFormatter.attrs: the attribute names
\* of the formatter class of a backend.
attrs(cls) == IF cls = "local" THEN ATTRIBUTES ELSE G_ATTRIBUTES

\* No formatter object: the constructor has not returned one.
NoFormatter == [made |-> FALSE, dict |-> <<>>]

\* CellFormatter.__init__(**kwargs) which stores every keyword, checked or
\* not.
__init__Unchecked(cls, kwargs) ==
    [err |-> "none", made |-> TRUE, dict |-> kwargs]

\* CellFormatter.__init__(**kwargs): a keyword outside attrs() raises
\* AttributeError before anything is stored, otherwise __dict__ takes the
\* keywords.
__init__(cls, kwargs) ==
    IF {attr \in DOMAIN kwargs : attr \notin attrs(cls)} # {}
    THEN [err |-> "AttributeError", made |-> FALSE, dict |-> <<>>]
    ELSE [err |-> "none", made |-> TRUE, dict |-> kwargs]

\* CellFormatter.__setattr__(attr, value) on the formatter whose __dict__
\* is dict.
__setattr__(cls, dict, attr, value) ==
    IF attr \notin attrs(cls)
    THEN [err |-> "AttributeError", dict |-> dict]
    ELSE [err |-> "none",
          dict |-> [a \in DOMAIN dict \cup {attr} |->
                       IF a = attr THEN value ELSE dict[a]]]

\* CellFormatter.__getattr__(attr) on the formatter whose __dict__ is dict,
\* with what it leaves in __dict__: an attribute of attrs() that is not held
\* is stored as None.
__getattr__(cls, dict, attr) ==
    IF attr \notin attrs(cls)
    THEN [err |-> "AttributeError", val |-> RetNone, dict |-> dict]
    ELSE IF attr \in DOMAIN dict
    THEN [err |-> "none", val |-> dict[attr], dict |-> dict]
    ELSE [err |-> "none", val |-> RetNone,
          dict |-> [a \in DOMAIN dict \cup {attr} |->
                       IF a = attr THEN RetNone ELSE dict[a]]]

\* The methods the class CellFormatter defines.
Methods ==
    {"attrs", "format", "on_format", "non_nones", "__len__", "__setattr__",
     "__getattr__"}

\* CellFormatter(**kwargs): the formatter is its __dict__.
CellFormatter(kwargs) == [dict |-> kwargs]

\* CellFormatter.__getattr__(attr), Python's fallback for a name that is
\* neither in __dict__ nor defined by the class: a name outside attrs()
\* raises AttributeError, a formatting attribute that is not held is None.
getattr(formatter, attr) ==
    IF attr \in DOMAIN formatter.dict
    THEN [err |-> "none", val |-> formatter.dict[attr]]
    ELSE IF attr \in Methods THEN [err |-> "none", val |-> 1]
    ELSE IF attr \notin ATTRIBUTES THEN [err |-> "AttributeError", val |-> RetNone]
    ELSE [err |-> "none", val |-> RetNone]

\* Python's truth value of an attribute value: None and 0 are false.
Truthy(v) == v \notin {RetNone, 0}

\* CellFormatter.non_nones
non_nones(formatter) == {attr \in ATTRIBUTES : Truthy(getattr(formatter, attr).val)}

\* CellFormatter.format(cell): setattr(cell, attr, value) for every attribute
\* of non_nones.
Formatted(cell, formatter) ==
    [cell EXCEPT !.style = [attr \in DOMAIN @ \cup non_nones(formatter) |->
                               IF attr \in non_nones(formatter)
                               THEN getattr(formatter, attr).val
                               ELSE @[attr]]]

\* `lambda cell: formatter.format(cell)`
FormatWith(formatter) ==
    [callable |-> TRUE, kind |-> "format", v |-> 0, d |-> formatter.dict]

\* The cell after fn(cell).
Mutated(fn, cell, t) ==
    IF fn.kind = "dict"
    THEN [cell EXCEPT !.value = fn.d[_col_idx_to_col_id(cell.col, t).value]]
    ELSE IF fn.kind = "format" THEN Formatted(cell, CellFormatter(fn.d))
    ELSE [cell EXCEPT !.value = fn.v]

\* The inner loop of traverse (lines 375-379) over the selected columns of one
\* row: fn(cell), then the cell is put into the worksheet at its coordinate.
RECURSIVE TraverseRow(_, _, _, _)
TraverseRow(matched, row_idx, fn, t) ==
    IF matched = <<>> THEN t
    ELSE LET col_id == Head(matched)
             id     == DictGet(t.rows, row_idx)[col_id.value]
             p      == <<row_idx, col_id.col_idx>>
         IN  TraverseRow(Tail(matched), row_idx, fn,
                [t EXCEPT
                    !.heap[id] = Mutated(fn, @, t),
                    !.ws_cells = [q \in DOMAIN @ \cup {p} |->
                                     IF q = p THEN id ELSE @[q]]])

\* The outer loop of traverse (lines 373-379); self.rows[row_idx] raises
\* KeyError for an index that is no key of rows, the rows before it done.
RECURSIVE TraverseRows(_, _, _, _)
TraverseRows(row_idxs, select, fn, t) ==
    IF row_idxs = <<>> THEN [err |-> "none", t |-> t]
    ELSE LET matched == SelectSeq(t.col_ids, LAMBDA col_id : col_id.value \in select)
         IN  IF matched # <<>> /\ Head(row_idxs) \notin KeySet(t.rows)
             THEN [err |-> "KeyError", t |-> t]
             ELSE TraverseRows(Tail(row_idxs), select, fn,
                               TraverseRow(matched, Head(row_idxs), fn, t))

\* select of None means every column.
AllColumns == [none |-> TRUE, names |-> {}]

Select(names) == [none |-> FALSE, names |-> names]

\* LocalCelltable.traverse
traverse(fn, where, select, t) ==
    IF ~fn.callable THEN Raise("TypeError", t)
    ELSE LET row_idxs_where == _row_idxs_where(where, t)
             chosen == IF select.none
                       THEN {t.col_ids[i].value : i \in 1..Len(t.col_ids)}
                       ELSE select.names
         IN  IF row_idxs_where.err # "none" THEN Raise(row_idxs_where.err, t)
             ELSE LET done == TraverseRows(row_idxs_where.val, chosen, fn, t)
                  IN  IF done.err # "none" THEN Raise(done.err, done.t)
                      ELSE Ok(Len(row_idxs_where.val), done.t)

\* ----------------------------------------------------------------- update

\* The loop of update without a where (lines 321-322): every cell of the row
\* but the first takes value_in_dict[column name]; a missing name raises
\* KeyError, the cells before it written.
RECURSIVE UpdateCells(_, _, _)
UpdateCells(ids, value_in_dict, t) ==
    IF ids = <<>> THEN [err |-> "none", t |-> t]
    ELSE LET name == _col_idx_to_col_id(t.heap[Head(ids)].col, t).value
         IN  IF name \notin DOMAIN value_in_dict THEN [err |-> "KeyError", t |-> t]
             ELSE UpdateCells(Tail(ids), value_in_dict,
                              [t EXCEPT !.heap[Head(ids)].value = value_in_dict[name]])

\* An update that hands every call to traverse, with or without a where.
update_AlwaysTraverse(value_in_dict, where, t) ==
    traverse(FromDict(value_in_dict), where,
             Select({t.col_ids[i].value : i \in 1..Len(t.col_ids)}
                        \cap DOMAIN value_in_dict),
             t)

\* LocalCelltable.update
update(value_in_dict, where, t) ==
    IF where.none
    THEN IF COL_ROW_IDX \notin DOMAIN value_in_dict
            \/ value_in_dict[COL_ROW_IDX] \notin KeySet(t.rows)
         THEN Raise("KeyError", t)
         ELSE LET row    == DictGet(t.rows, value_in_dict[COL_ROW_IDX])
                  values == [i \in 1..Len(t.col_ids) |-> row[t.col_ids[i].value]]
                  done   == UpdateCells(Tail(values), value_in_dict, t)
              IN  IF done.err # "none" THEN Raise(done.err, done.t)
                  ELSE Ok(1, done.t)
    ELSE traverse(FromDict(value_in_dict), where,
                  Select({t.col_ids[i].value : i \in 1..Len(t.col_ids)}
                             \cap DOMAIN value_in_dict),
                  t)

\* ----------------------------------------------------------------- delete

\* `for row_idx in ...: self.rows.pop(row_idx)` (lines 337-338 and 349-351):
\* pop raises KeyError for a key that is not (or no longer) there, the keys
\* before it popped.
RECURSIVE PopEach(_, _)
PopEach(row_idxs, rws) ==
    IF row_idxs = <<>> THEN [err |-> "none", rows |-> rws]
    ELSE IF Head(row_idxs) \notin KeySet(rws) THEN [err |-> "KeyError", rows |-> rws]
         ELSE PopEach(Tail(row_idxs), DictPop(rws, Head(row_idxs)))

\* The shift loop (lines 344-347) from its i-th pair on: the cells of the row
\* take the new row number and the row is stored under it.
RECURSIVE ShiftRows(_, _, _, _)
ShiftRows(i, first_popped_row_id, rows_after, t) ==
    IF i > Len(rows_after) THEN t
    ELSE LET new_row_idx == first_popped_row_id + i - 1
             row == rows_after[i]
         IN  ShiftRows(i + 1, first_popped_row_id, rows_after,
                [t EXCEPT
                    !.heap = [id \in DOMAIN @ |->
                                 IF \E c \in DOMAIN row : row[c] = id
                                 THEN [@[id] EXCEPT !.row = new_row_idx]
                                 ELSE @[id]],
                    !.rows = DictSet(@, new_row_idx, row)])

\* [begin_max_row - i for i in range(affected_row_count)
\*  if begin_max_row - i not in row_idxs_where]
RECURSIVE LastRows(_, _, _, _)
LastRows(i, affected_row_count, begin_max_row, row_idxs_where) ==
    IF i >= affected_row_count THEN <<>>
    ELSE (IF InSeq(begin_max_row - i, row_idxs_where)
          THEN <<>> ELSE <<begin_max_row - i>>)
         \o LastRows(i + 1, affected_row_count, begin_max_row, row_idxs_where)

\* copy(cell) of every cell of the rows from the i-th pair (row, column) on,
\* put into the worksheet at (row_idx, col_idx) and appended to cols
\* (lines 362-366).
RECURSIVE CopyCells(_, _, _)
CopyCells(i, slots, t) ==
    IF i > Len(slots) THEN t
    ELSE LET row_idx == slots[i].row_idx
             col_id  == slots[i].col_id
             new     == FreshIds(Live(t.rows, t.cols, t.ws_cells), 1)[1]
             p       == <<row_idx, col_id.col_idx>>
             cell    == t.heap[DictGet(t.rows, row_idx)[col_id.value]]
         IN  CopyCells(i + 1, slots,
                [t EXCEPT
                    !.heap = [id \in DOMAIN @ \cup {new} |->
                                 IF id = new THEN cell ELSE @[id]],
                    !.ws_cells = [q \in DOMAIN @ \cup {p} |->
                                     IF q = p THEN new ELSE @[q]],
                    !.cols[col_id.value] = Append(@, new)])

\* The pairs (row, column) of the loop at lines 362-363, in its order.
Slots(t) ==
    [n \in 1..(Len(t.rows) * Len(t.col_ids)) |->
        [row_idx |-> t.rows[((n - 1) \div Len(t.col_ids)) + 1].k,
         col_id  |-> t.col_ids[((n - 1) % Len(t.col_ids)) + 1]]]

\* Lines 356-366: cols and the worksheet are emptied, the header is appended
\* as row 1 and every row of rows is copied back.
Rebuild(t) ==
    LET cleared == [t EXCEPT !.cols = [c \in DOMAIN @ |-> <<>>],
                             !.ws_cells = <<>>]
        header  == safe_append(cleared,
                               [i \in 1..Len(t.col_ids) |->
                                   [col |-> t.col_ids[i].col_idx,
                                    value |-> t.col_ids[i].value]],
                               TRUE)
    IN  CopyCells(1, Slots(header), header)

\* LocalCelltable.delete
delete(where, t) ==
    LET found == _row_and_col_where(where, t)
        row_idxs_where == found.val
        affected_row_count == Len(row_idxs_where)
    IN  IF found.err # "none" THEN Raise(found.err, t)
        ELSE IF affected_row_count = 0 THEN Ok(RetNone, t)
        ELSE
        LET begin_max_row == MaxRowOf(t.ws_cells)
            popped == PopEach(row_idxs_where, t.rows)
        IN  IF popped.err # "none" THEN Raise(popped.err, [t EXCEPT !.rows = popped.rows])
            ELSE
            LET first_popped_row_id ==
                    Min({row_idxs_where[i] : i \in 1..Len(row_idxs_where)})
                \* zip() stops at the shorter of index_range and the rows
                rows_after == SubSeq(popped.rows, first_popped_row_id - 1,
                                     Min({Len(popped.rows),
                                          begin_max_row - 1}))
                shifted == ShiftRows(1, first_popped_row_id,
                                     [i \in 1..Len(rows_after) |-> rows_after[i].cells],
                                     [t EXCEPT !.rows = popped.rows])
                last_popped == PopEach(LastRows(0, affected_row_count, begin_max_row,
                                                row_idxs_where),
                                       shifted.rows)
            IN  IF last_popped.err # "none"
                THEN Raise(last_popped.err, [shifted EXCEPT !.rows = last_popped.rows])
                ELSE Ok(affected_row_count,
                        Rebuild([shifted EXCEPT !.rows = SortedDict(last_popped.rows)]))

\* LocalCelltable.format: `where is None and formatter.is_empty()`
\* evaluates formatter.is_empty when where is None; no class defines
\* is_empty, so the lookup goes to __getattr__.
format(formatter, where, select, t) ==
    IF where.none THEN Raise(getattr(formatter, "is_empty").err, t)
    ELSE traverse(FormatWith(formatter), where, select, t)

\* ------------------------------------------- GoogleCelltable (pygsheets)
\* The remote table keeps rows, cols and col_ids as the local one does; its
\* cells come from the worksheet's answers and are linked to it.  The
\* worksheet stores the values written to it.

\* A pygsheets Cell the worksheet returned.
LinkedCell(r, c, v) ==
    [row |-> r, col |-> c, value |-> v, style |-> <<>>, linked |-> TRUE]

\* One more request of the given method.
Sent(t, method) == [t EXCEPT !.net[method] = @ + 1]

\* GoogleCelltable.value_in_dict_to_row_value: the values in the order of
\* the worksheet's columns, '' under a column without id.
value_in_dict_to_row_value(value_in_dict, t) ==
    [col_idx \in 1..t.col_ids[Len(t.col_ids)].col_idx |->
        IF \E i \in 1..Len(t.col_ids) : t.col_ids[i].col_idx = col_idx
        THEN value_in_dict[t.col_ids[CHOOSE i \in 1..Len(t.col_ids) :
                                        t.col_ids[i].col_idx = col_idx].value]
        ELSE ""]

\* worksheet.insert_rows(row, values=values): one new row after `row`.
insert_rows(t, row, values) ==
    Sent([t EXCEPT !.grid = SubSeq(@, 1, row) \o <<values>>
                               \o SubSeq(@, row + 1, Len(@))],
         "insert_rows")

\* worksheet.update_cells(cell_list): one request that writes every cell's
\* value at its coordinate.
RECURSIVE WriteCells(_, _, _)
WriteCells(ids, hp, g) ==
    IF ids = <<>> THEN g
    ELSE WriteCells(Tail(ids), hp,
                    [g EXCEPT ![hp[Head(ids)].row][hp[Head(ids)].col] = hp[Head(ids)].value])

update_cells(t, cell_list) ==
    Sent([t EXCEPT !.grid = WriteCells(cell_list, t.heap, @),
                   !.batch = @ \o cell_list],
         "update_cells")

\* The loop over col_ids for one fetched row (lines 400-405): a non-empty
\* cell raises _max_row to the row, and a cell is kept once _max_row has
\* reached the row.  acc is the table so far with cells_in_row.
RECURSIVE InitCells(_, _, _, _)
InitCells(row, row_idx, todo, acc) ==
    IF todo = <<>> THEN acc
    ELSE LET col_id == Head(todo)
             value  == row[col_id.col_idx]
             raised == IF value # "" /\ acc.t._max_row # row_idx
                       THEN Max({acc.t._max_row, row_idx})
                       ELSE acc.t._max_row
             id     == FreshIds(DOMAIN acc.t.heap, 1)[1]
             kept   == [acc.t EXCEPT
                          !._max_row = raised,
                          !.heap = [i \in DOMAIN @ \cup {id} |->
                                       IF i = id
                                       THEN LinkedCell(row_idx, col_id.col_idx, value)
                                       ELSE @[i]],
                          !.cols[col_id.value] = Append(@, id)]
         IN  InitCells(row, row_idx, Tail(todo),
                 IF raised >= row_idx
                 THEN [t |-> kept,
                       cells_in_row |->
                           [c \in DOMAIN acc.cells_in_row \cup {col_id.value} |->
                               IF c = col_id.value THEN id ELSE acc.cells_in_row[c]]]
                 ELSE [acc EXCEPT !.t._max_row = raised])

\* The loop over all_rows[1:] (lines 397-408): the row is registered when
\* _max_row has reached it.
RECURSIVE InitRows(_, _, _)
InitRows(all_rows, row_idx, t) ==
    IF row_idx > Len(all_rows) THEN t
    ELSE LET done == InitCells(all_rows[row_idx], row_idx, t.col_ids,
                               [t |-> t, cells_in_row |-> <<>>])
         IN  InitRows(all_rows, row_idx + 1,
                 IF done.t._max_row >= row_idx
                 THEN [done.t EXCEPT !.rows = DictSet(@, row_idx, done.cells_in_row)]
                 ELSE done.t)

\* GoogleCelltable.__init__ on a worksheet whose get_all_values('cell')
\* answers all_rows (the matrix of the cells' values, row 1 the header):
\* col_ids are the header cells with a value, cols starts empty, _max_row 1.
GoogleCelltable__init__(all_rows) ==
    LET header  == [i \in 1..Len(all_rows[1]) |->
                       [value |-> all_rows[1][i], col_idx |-> i]]
        col_ids_ == SelectSeq(header, LAMBDA col_id : col_id.value # "")
    IN  InitRows(all_rows, 2,
            [heap |-> <<>>, rows |-> <<>>,
             cols |-> [c \in {col_ids_[i].value : i \in 1..Len(col_ids_)} |-> <<>>],
             col_ids |-> col_ids_,
             ws_cells |-> <<>>, ws_current_row |-> 0,
             _max_row |-> 1, grid |-> all_rows,
             net |-> [NoRequests EXCEPT !["get_all_values"] = 1], batch |-> <<>>])

\* GoogleCelltable.insert
g_insert(value_in_dict, t) ==
    IF \E i \in 1..Len(t.col_ids) : t.col_ids[i].value \notin DOMAIN value_in_dict
    THEN Raise("KeyError", t)
    \* the service refuses an insert position before the first row
    ELSE IF t._max_row < 0 THEN Raise("RequestError", Sent(t, "insert_rows"))
    ELSE LET inserted == insert_rows(t, t._max_row,
                                     value_in_dict_to_row_value(value_in_dict, t))
             new_row_idx == t._max_row + 1
             ids  == FreshIds(DOMAIN t.heap, Len(t.col_ids))
             \* worksheet.get_row(new_row_idx, 'cell')
             new_row == [c \in DOMAIN t.cols |->
                            ids[CHOOSE i \in 1..Len(t.col_ids) : t.col_ids[i].value = c]]
             fetched == Sent(inserted, "get_row")
         IN  Ok(new_row_idx,
                [fetched EXCEPT
                    !._max_row = new_row_idx,
                    !.heap = [id \in DOMAIN @ \cup {ids[j] : j \in 1..Len(ids)} |->
                                 IF id \in DOMAIN @ THEN @[id]
                                 ELSE LET j == CHOOSE j \in 1..Len(ids) : ids[j] = id
                                      IN  LinkedCell(new_row_idx, t.col_ids[j].col_idx,
                                              inserted.grid[new_row_idx][t.col_ids[j].col_idx])],
                    !.rows = DictSet(@, new_row_idx, new_row),
                    !.cols = [c \in DOMAIN @ |-> Append(@[c], new_row[c])]])

\* The inner loop of the remote traverse (lines 503-507) over the selected
\* columns of one row: cell.unlink(), fn(cell), cells_to_update.append(cell).
RECURSIVE g_TraverseRow(_, _, _, _)
g_TraverseRow(matched, row_idx, fn, acc) ==
    IF matched = <<>> THEN acc
    ELSE LET id == DictGet(acc.t.rows, row_idx)[Head(matched).value]
         IN  g_TraverseRow(Tail(matched), row_idx, fn,
                [t |-> [acc.t EXCEPT
                           !.heap[id] = [Mutated(fn, @, acc.t) EXCEPT !.linked = FALSE]],
                 cells_to_update |-> Append(acc.cells_to_update, id)])

\* The outer loop of the remote traverse (lines 500-507).
RECURSIVE g_TraverseRows(_, _, _, _)
g_TraverseRows(row_idxs, select, fn, acc) ==
    IF row_idxs = <<>> THEN [err |-> "none", acc |-> acc]
    ELSE LET matched == SelectSeq(acc.t.col_ids, LAMBDA col_id : col_id.value \in select)
         IN  IF matched # <<>> /\ Head(row_idxs) \notin KeySet(acc.t.rows)
             THEN [err |-> "KeyError", acc |-> acc]
             ELSE g_TraverseRows(Tail(row_idxs), select, fn,
                                 g_TraverseRow(matched, Head(row_idxs), fn, acc))

\* cell.link(self.worksheet) for every cell of the list
RECURSIVE LinkCells(_, _)
LinkCells(ids, hp) ==
    IF ids = <<>> THEN hp
    ELSE LinkCells(Tail(ids), [hp EXCEPT ![Head(ids)].linked = TRUE])

\* A remote traverse that does not look at fn before it starts.
g_traverse_Unchecked(fn, where, select, t) ==
    LET row_idxs_where == _row_idxs_where(where, t)
        chosen == IF select.none
                  THEN {t.col_ids[i].value : i \in 1..Len(t.col_ids)}
                  ELSE select.names
    IN  IF row_idxs_where.err # "none" THEN Raise(row_idxs_where.err, t)
        ELSE LET done == g_TraverseRows(row_idxs_where.val, chosen, fn,
                                        [t |-> t, cells_to_update |-> <<>>])
             IN  IF done.err # "none" THEN Raise(done.err, done.acc.t)
                 ELSE Ok(Len(row_idxs_where.val),
                         update_cells(done.acc.t, done.acc.cells_to_update))

\* A remote traverse that links the cells again without sending them.
g_traverse_Unsent(fn, where, select, t) ==
    IF ~fn.callable THEN Raise("TypeError", t)
    ELSE LET row_idxs_where == _row_idxs_where(where, t)
             chosen == IF select.none
                       THEN {t.col_ids[i].value : i \in 1..Len(t.col_ids)}
                       ELSE select.names
         IN  IF row_idxs_where.err # "none" THEN Raise(row_idxs_where.err, t)
             ELSE LET done == g_TraverseRows(row_idxs_where.val, chosen, fn,
                                             [t |-> t, cells_to_update |-> <<>>])
                  IN  IF done.err # "none" THEN Raise(done.err, done.acc.t)
                      ELSE Ok(Len(row_idxs_where.val),
                              [done.acc.t EXCEPT
                                  !.heap = LinkCells(done.acc.cells_to_update, @)])

\* GoogleCelltable.traverse
g_traverse(fn, where, select, t) ==
    IF ~fn.callable THEN Raise("TypeError", t)
    ELSE LET row_idxs_where == _row_idxs_where(where, t)
             chosen == IF select.none
                       THEN {t.col_ids[i].value : i \in 1..Len(t.col_ids)}
                       ELSE select.names
         IN  IF row_idxs_where.err # "none" THEN Raise(row_idxs_where.err, t)
             ELSE LET done == g_TraverseRows(row_idxs_where.val, chosen, fn,
                                             [t |-> t, cells_to_update |-> <<>>])
                  IN  IF done.err # "none" THEN Raise(done.err, done.acc.t)
                      ELSE LET updated == update_cells(done.acc.t, done.acc.cells_to_update)
                           IN  Ok(Len(row_idxs_where.val),
                                  [updated EXCEPT
                                      !.heap = LinkCells(done.acc.cells_to_update, @)])

\* cell.value = v on a pygsheets cell: a linked cell sends its new value to
\* the worksheet at once.
set_value(t, id, v) ==
    LET set == [t EXCEPT !.heap[id].value = v]
    IN  IF t.heap[id].linked
        THEN Sent([set EXCEPT !.grid[t.heap[id].row][t.heap[id].col] = v], "update_value")
        ELSE set

\* The loop of the remote update without a where (lines 453-454).
RECURSIVE g_UpdateCells(_, _, _)
g_UpdateCells(ids, value_in_dict, t) ==
    IF ids = <<>> THEN [err |-> "none", t |-> t]
    ELSE LET name == _col_idx_to_col_id(t.heap[Head(ids)].col, t).value
         IN  IF name \notin DOMAIN value_in_dict THEN [err |-> "KeyError", t |-> t]
             ELSE g_UpdateCells(Tail(ids), value_in_dict,
                                set_value(t, Head(ids), value_in_dict[name]))

\* GoogleCelltable.update
g_update(value_in_dict, where, t) ==
    IF where.none
    THEN IF COL_ROW_IDX \notin DOMAIN value_in_dict
            \/ value_in_dict[COL_ROW_IDX] \notin KeySet(t.rows)
         THEN Raise("KeyError", t)
         ELSE LET row    == DictGet(t.rows, value_in_dict[COL_ROW_IDX])
                  values == [i \in 1..Len(t.col_ids) |-> row[t.col_ids[i].value]]
                  done   == g_UpdateCells(Tail(values), value_in_dict, t)
              IN  IF done.err # "none" THEN Raise(done.err, done.t)
                  ELSE Ok(1, done.t)
    ELSE g_traverse(FromDict(value_in_dict), where,
                    Select({t.col_ids[i].value : i \in 1..Len(t.col_ids)}
                               \cap DOMAIN value_in_dict),
                    t)

\* A bound of a Python slice: a negative bound counts from the end, and
\* both ends are clipped to the list.
SliceBound(n, len) == IF n < 0 THEN Max({0, len + n}) ELSE Min({n, len})

\* lst[a:b] on a Python list
PySlice(lst, a, b) ==
    LET lo == SliceBound(a, Len(lst))
        hi == SliceBound(b, Len(lst))
    IN  [n \in 1..Max({0, hi - lo}) |-> lst[lo + n]]

\* worksheet.delete_rows(index, number): one request; the rows below move up.
delete_rows(t, index, number) ==
    Sent([t EXCEPT !.grid = PySlice(@, 0, index - 1)
                               \o PySlice(@, index - 1 + number, Len(@))],
         "delete_rows")

\* The adjacent groups of row_idxs_where (lines 468-469): itertools.groupby on
\* value minus position starts a new group where the next index is not the
\* previous one plus 1.
RECURSIVE GroupsOf(_, _)
GroupsOf(row_idxs, grps) ==
    IF row_idxs = <<>> THEN grps
    ELSE LET x == Head(row_idxs)
             last == grps[Len(grps)]
         IN  IF grps # <<>> /\ x = last[Len(last)] + 1
             THEN GroupsOf(Tail(row_idxs),
                           [grps EXCEPT ![Len(grps)] = Append(@, x)])
             ELSE GroupsOf(Tail(row_idxs), Append(grps, <<x>>))

\* The loop over the groups (lines 472-478): one delete_rows per group.  The
\* service refuses a range that starts before row 1; _max_row has been
\* lowered by then.
RECURSIVE DeleteGroups(_, _, _)
DeleteGroups(delete_grps, deleted_count, t) ==
    IF delete_grps = <<>> THEN [err |-> "none", t |-> t]
    ELSE LET delete_grp  == Head(delete_grps)
             delete_size == Len(delete_grp)
             lowered     == [t EXCEPT !._max_row = @ - delete_size]
         IN  IF delete_grp[1] - deleted_count < 1
             THEN [err |-> "RequestError", t |-> Sent(lowered, "delete_rows")]
             ELSE DeleteGroups(Tail(delete_grps), deleted_count + delete_size,
                     delete_rows(lowered, delete_grp[1] - deleted_count, delete_size))

\* del lst[a:b] on a Python list
DelSlice(lst, a, b) ==
    LET keep == {i \in 1..Len(lst) : \/ i - 1 < SliceBound(a, Len(lst))
                                     \/ i - 1 >= SliceBound(b, Len(lst))}
        nth(n) == CHOOSE i \in keep : Cardinality({j \in keep : j < i}) = n - 1
    IN  [n \in 1..Cardinality(keep) |-> nth(n)]

\* worksheet.get_values((first_row, 1), (last_row, last_col), 'cell') answers
\* with the rows of the range that the worksheet has, as new linked cells;
\* the loop at lines 487-492 puts the cell at slots[i] into the row's dict
\* and into cols at row_idx - 2.  self.rows[row_idx] raises KeyError for a
\* missing row, the list assignment IndexError past the end of cols.  A row
\* dict stored under two keys is changed under both.
RECURSIVE WriteBack(_, _, _)
WriteBack(i, slots, t) ==
    IF i > Len(slots) THEN [err |-> "none", t |-> t]
    ELSE LET row_idx == slots[i].row_idx
             col_id  == slots[i].col_id
             new     == FreshIds(DOMAIN t.heap, 1)[1]
         IN  IF row_idx \notin KeySet(t.rows) THEN [err |-> "KeyError", t |-> t]
             ELSE LET dict == DictGet(t.rows, row_idx)
                      put  == [t EXCEPT
                                  !.heap = [id \in DOMAIN @ \cup {new} |->
                                               IF id = new
                                               THEN LinkedCell(row_idx, col_id.col_idx,
                                                        t.grid[row_idx][col_id.col_idx])
                                               ELSE @[id]],
                                  !.rows = [n \in 1..Len(@) |->
                                               IF @[n].cells = dict
                                               THEN [@[n] EXCEPT
                                                        !.cells[col_id.value] = new]
                                               ELSE @[n]]]
                  IN  IF row_idx - 2 >= Len(t.cols[col_id.value])
                      THEN [err |-> "IndexError", t |-> put]
                      ELSE WriteBack(i + 1, slots,
                              [put EXCEPT !.cols[col_id.value][row_idx - 1] = new])

\* Celltable._reorder_rows as the remote delete calls it: the rows after
\* the first popped one move up to close the gaps, the keys left over at the
\* end are popped, and the dict is sorted.
g_reorder_rows(row_idxs_where, begin_max_row, affected_row_count, t) ==
    LET first_popped_row_id ==
            Min({row_idxs_where[i] : i \in 1..Len(row_idxs_where)})
        \* zip() stops at the shorter of index_range and the rows
        tail == PySlice(t.rows, first_popped_row_id - 2, Len(t.rows))
        rows_after == SubSeq(tail, 1, Max({0, Min({Len(tail), begin_max_row + 1
                                                       - first_popped_row_id})}))
        shifted == ShiftRows(1, first_popped_row_id,
                             [i \in 1..Len(rows_after) |-> rows_after[i].cells], t)
        last_popped == PopEach(LastRows(0, affected_row_count, begin_max_row,
                                        row_idxs_where),
                               shifted.rows)
    IN  IF last_popped.err # "none"
        THEN [err |-> last_popped.err, t |-> [shifted EXCEPT !.rows = last_popped.rows]]
        ELSE [err |-> "none",
              t |-> [shifted EXCEPT !.rows = SortedDict(last_popped.rows)]]

\* Lines 483-484: the slice first_deleted_row : begin_max_row leaves every
\* list of cols.
CutCols(first_deleted_row, begin_max_row, t) ==
    [t EXCEPT !.cols = [c \in DOMAIN @ |->
                           LET kept == DelSlice(@[c], first_deleted_row, begin_max_row)
                           IN  [n \in 1..Len(kept) |-> @[c][kept[n]]]]]

\* Lines 486-492: one get_values for the rows from first_deleted_row to
\* _max_row, whose cells replace those of rows and cols.
Refetch(first_deleted_row, t) ==
    LET read == Sent(t, "get_values")
        affected_rows ==
            [n \in 1..Max({0, Min({read._max_row, Len(read.grid)})
                                - first_deleted_row + 1}) |->
                first_deleted_row + n - 1]
        slots == [n \in 1..(Len(affected_rows) * Len(t.col_ids)) |->
                     [row_idx |-> affected_rows[((n - 1) \div Len(t.col_ids)) + 1],
                      col_id  |-> t.col_ids[((n - 1) % Len(t.col_ids)) + 1]]]
    IN  WriteBack(1, slots, read)

\* Lines 480-493, once the worksheet's rows are deleted.
g_DeleteLocally(row_idxs_where, deleted) ==
    LET deleted_row_count == Len(row_idxs_where)
        begin_max_row == deleted._max_row + deleted_row_count
        popped == PopEach(row_idxs_where, deleted.rows)
    IN  IF popped.err # "none"
        THEN Raise(popped.err, [deleted EXCEPT !.rows = popped.rows])
        ELSE LET reordered == g_reorder_rows(row_idxs_where, begin_max_row,
                                  deleted_row_count,
                                  [deleted EXCEPT !.rows = popped.rows])
             IN  IF reordered.err # "none" THEN Raise(reordered.err, reordered.t)
                 ELSE LET done == Refetch(row_idxs_where[1],
                                     CutCols(row_idxs_where[1], begin_max_row,
                                             reordered.t))
                      IN  IF done.err # "none" THEN Raise(done.err, done.t)
                          ELSE Ok(deleted_row_count, done.t)

\* GoogleCelltable.delete
g_delete(where, t) ==
    LET found == _row_and_col_where(where, t)
    IN  IF found.err # "none" THEN Raise(found.err, t)
        ELSE IF Len(found.val) = 0 THEN Ok(0, t)
        ELSE LET requested == DeleteGroups(GroupsOf(found.val, <<>>), 0, t)
             IN  IF requested.err # "none" THEN Raise(requested.err, requested.t)
                 ELSE g_DeleteLocally(found.val, requested.t)

\* GoogleCelltable.__len__
g_len(t) == t._max_row - 1

\* GoogleCelltable.format: as LocalCelltable.format, on the remote traverse.
g_format(formatter, where, select, t) ==
    IF where.none THEN Raise(getattr(formatter, "is_empty").err, t)
    ELSE g_traverse(FormatWith(formatter), where, select, t)

\* ------------------------------------------------------------ item access

\* {DAO.COL_ROW_IDX: row_idx}, the where of the item-access methods.
ByRowIdx(row_idx) == Dict(<<Clause(COL_ROW_IDX, row_idx)>>)

\* Celltable.__getitem__
Celltable__getitem__(row_idx, t) == query(ByRowIdx(row_idx), t)

\* Celltable.__contains__
Celltable__contains__(row_idx, t) ==
    LET found == _row_and_col_where(ByRowIdx(row_idx), t)
    IN  [err |-> found.err, val |-> found.err = "none" /\ Len(found.val) > 0]

\* The outcome of an item assignment or deletion: what the operation r it
\* called raised and left; the method returns nothing; warned tells whether
\* warnings.warn was called.
Done(r, warned) == [err |-> r.err, ret |-> RetNone, t |-> r.t, warned |-> warned]

\* Celltable.__setitem__ that inserts when no row is held, for a callable
\* too.
Celltable__setitem__Inserts(row_idx, value, t) ==
    IF Celltable__contains__(row_idx, t).val
    THEN Done(update(value, ByRowIdx(row_idx), t), FALSE)
    ELSE Done(insert(value, t), FALSE)

\* Celltable.__setitem__ that inserts whether or not the row is held.
Celltable__setitem__Appends(row_idx, value, t) ==
    Done(insert(value, t), FALSE)

\* Celltable.__setitem__ on a LocalCelltable
Celltable__setitem__(row_idx, value, t) ==
    LET held_ == Celltable__contains__(row_idx, t)
    IN  IF held_.err # "none" THEN Done(Raise(held_.err, t), FALSE)
        ELSE IF held_.val THEN Done(update(value, ByRowIdx(row_idx), t), FALSE)
        ELSE IF ~row_idx.callable THEN Done(insert(value, t), FALSE)
        ELSE Done(Ok(RetNone, t), TRUE)

\* Celltable.__setitem__ on a GoogleCelltable
g_Celltable__setitem__(row_idx, value, t) ==
    LET held_ == Celltable__contains__(row_idx, t)
    IN  IF held_.err # "none" THEN Done(Raise(held_.err, t), FALSE)
        ELSE IF held_.val THEN Done(g_update(value, ByRowIdx(row_idx), t), FALSE)
        ELSE IF ~row_idx.callable THEN Done(g_insert(value, t), FALSE)
        ELSE Done(Ok(RetNone, t), TRUE)

\* Celltable.__delitem__ that deletes whatever the table holds.
Celltable__delitem__Unasked(row_idx, t) ==
    Done(delete(NoWhere, t), FALSE)

\* Celltable.__delitem__ on a LocalCelltable
Celltable__delitem__(row_idx, t) ==
    LET held_ == Celltable__contains__(row_idx, t)
    IN  IF held_.err # "none" THEN Done(Raise(held_.err, t), FALSE)
        ELSE IF held_.val THEN Done(delete(ByRowIdx(row_idx), t), FALSE)
        ELSE Done(Ok(RetNone, t), FALSE)

\* Celltable.__delitem__ on a GoogleCelltable
g_Celltable__delitem__(row_idx, t) ==
    LET held_ == Celltable__contains__(row_idx, t)
    IN  IF held_.err # "none" THEN Done(Raise(held_.err, t), FALSE)
        ELSE IF held_.val THEN Done(g_delete(ByRowIdx(row_idx), t), FALSE)
        ELSE Done(Ok(RetNone, t), FALSE)

\* Celltable.__len__ on a LocalCelltable
Celltable__len__(t) == Len(t.rows)

\* ------------------------------------------------------------- the inputs

\* The row indices a caller names.
RowIdxs == 2..(MaxRows + 1)

SchemaNames == {Schema[i] : i \in 1..Len(Schema)}

\* Row dicts with a value for every column.
FullData == [SchemaNames -> Vals]

\* Row dicts that carry the reserved row index as well (Entity.to_dict of an
\* entity that was read or inserted before).
DataWithRowIdx ==
    {[k \in SchemaNames \cup {COL_ROW_IDX} |->
         IF k = COL_ROW_IDX THEN r ELSE d[k]] : r \in RowIdxs, d \in FullData}

\* Row dicts with one value in every column, without and with the row index.
SameData == {[c \in SchemaNames |-> v] : v \in Vals}

SameDataWithRowIdx ==
    {[k \in SchemaNames \cup {COL_ROW_IDX} |->
         IF k = COL_ROW_IDX THEN r ELSE v] : r \in RowIdxs, v \in Vals}

\* Row dicts that lack the last column.
PartialData == [{Schema[1]} -> Vals]

\* Conditions on the row index: every literal and every predicate.
RowConds == {Lit(r) : r \in RowIdxs} \cup {Pred(S) : S \in SUBSET RowIdxs}

\* Conditions on a column: `v` and `lambda x: x == v`.
ColConds == {Lit(v) : v \in Vals} \cup {Pred({v}) : v \in Vals}

\* The literal conditions.
RowLits == {Lit(r) : r \in RowIdxs}

ColLits == {Lit(v) : v \in Vals}

\* Wheres of one clause.
OneClause ==
    {Dict(<<Clause(COL_ROW_IDX, rc)>>) : rc \in RowConds}
        \cup {Dict(<<Clause(c, cc)>>) : c \in SchemaNames, cc \in ColConds}

\* Wheres of a row-index clause and a column clause.
RowAndCol ==
    {Dict(<<Clause(COL_ROW_IDX, rc), Clause(c, cc)>>) :
        rc \in RowLits \cup {Pred(RowIdxs \ {r}) : r \in RowIdxs},
        c \in {Schema[1]}, cc \in ColConds}

\* Wheres of two column clauses, in either order.
ColAndCol ==
    {Dict(<<Clause(Schema[1], cc1), Clause(Schema[2], cc2)>>) :
        cc1 \in ColConds, cc2 \in ColConds}
        \cup {Dict(<<Clause(Schema[2], cc2), Clause(Schema[1], cc1)>>) :
                  cc1 \in ColLits, cc2 \in ColLits}

\* The where arguments of query and delete: None, {}, one clause, two clauses.
Wheres == {NoWhere, Dict(<<>>)} \cup OneClause \cup RowAndCol \cup ColAndCol

\* The where arguments of update and traverse: literal clauses.
LitWheres ==
    {Dict(<<>>)}
        \cup {Dict(<<Clause(COL_ROW_IDX, rc)>>) : rc \in RowLits}
        \cup {Dict(<<Clause(Schema[1], cc)>>) : cc \in ColLits}
        \cup {Dict(<<Clause(COL_ROW_IDX, rc), Clause(Schema[1], cc)>>) :
                  rc \in RowLits, cc \in ColLits}
        \cup {Dict(<<Clause(Schema[1], cc1), Clause(Schema[2], cc2)>>) :
                  cc1 \in ColLits, cc2 \in ColLits}

\* The mutators handed to traverse.
Fns == {SetValue(v) : v \in Vals} \cup {NotCallable}

\* The select arguments.
Selects == {AllColumns, Select({Schema[Len(Schema)]})}

\* The formatters: none of the attributes set, and font set.
Formatters == {CellFormatter(<<>>), CellFormatter([font |-> 1])}

\* The where arguments of format.
FormatWheres ==
    {NoWhere, Dict(<<>>), Dict(<<Clause(COL_ROW_IDX, Lit(2))>>),
     Dict(<<Clause(Schema[1], Lit(0))>>)}

\* ------------------------------------------------------------------- Init


\* SimpleDAO.TABLE_NAME: the worksheet the table variables belong to.
TABLE_NAME == "Simple"

\* The title of the sheet a new openpyxl Workbook() holds.
DefaultTitle == "Sheet"

\* LocalCellbase._on_create: a new sheet with the schema appended as row 1
\* (worksheet.append leaves _current_row at 1), and LocalCelltable.__init__
\* on it: col_ids from the header, empty cols, no rows.
InitLocal ==
    /\ heap = [i \in 1..Len(Schema) |-> Cell(1, i, Schema[i])]
    /\ ws_cells = [p \in {<<1, i>> : i \in 1..Len(Schema)} |-> p[2]]
    /\ ws_current_row = 1
    /\ col_ids = [i \in 1..Len(Schema) |-> [value |-> Schema[i], col_idx |-> i]]
    /\ cols = [c \in SchemaNames |-> <<>>]
    /\ rows = <<>>
    /\ backend = "local"
    /\ _max_row = 0
    /\ grid = <<>>
    /\ net = NoRequests
    /\ calls = 0
    /\ held = NoFormatter
    /\ celltables = {DefaultTitle, TABLE_NAME}
    /\ schemas = {TABLE_NAME}
    /\ worksheets = <<TABLE_NAME, DefaultTitle>>

\* GoogleCellbase._on_create: a new worksheet whose row 1 is the schema, and
\* GoogleCelltable.__init__ on it: one get_all_values, col_ids from the
\* header, empty cols, no rows, _max_row 1.
InitRemote ==
    /\ heap = <<>>
    /\ ws_cells = <<>>
    /\ ws_current_row = 0
    /\ col_ids = [i \in 1..Len(Schema) |-> [value |-> Schema[i], col_idx |-> i]]
    /\ cols = [c \in SchemaNames |-> <<>>]
    /\ rows = <<>>
    /\ backend = "remote"
    /\ _max_row = 1
    /\ grid = <<Schema>>
    /\ net = [NoRequests EXCEPT !["get_all_values"] = 1]
    /\ calls = 0
    /\ held = NoFormatter
    /\ celltables = {TABLE_NAME}
    /\ schemas = {TABLE_NAME}
    /\ worksheets = <<TABLE_NAME>>

Init == InitLocal \/ InitRemote

\* ---------------------------------------------------------------- actions

\* The longest sequence of calls explored on the table's backend.
CallBound == IF backend = "local" THEN MaxCalls ELSE MaxRemoteCalls

\* The state after a call of operation op with outcome r.
Becomes(op, r) ==
    /\ heap' = r.t.heap
    /\ rows' = r.t.rows
    /\ cols' = r.t.cols
    /\ col_ids' = r.t.col_ids
    /\ ws_cells' = r.t.ws_cells
    /\ ws_current_row' = r.t.ws_current_row
    /\ _max_row' = r.t._max_row
    /\ grid' = r.t.grid
    /\ net' = r.t.net
    /\ UNCHANGED <<backend, held, celltables, schemas, worksheets>>
    /\ calls < CallBound
    /\ calls' = calls + 1

\* Cellbase.insert -> LocalCelltable.insert
Insert ==
    /\ backend = "local"
    /\ MaxRowOf(ws_cells) <= MaxRows
    /\ \E value_in_dict \in FullData \cup PartialData :
           Becomes("insert", insert(value_in_dict, Table))

\* Cellbase.update -> LocalCelltable.update
Update ==
    /\ backend = "local"
    /\ \/ \E value_in_dict \in FullData \cup DataWithRowIdx :
              Becomes("update", update(value_in_dict, NoWhere, Table))
       \/ \E value_in_dict \in SameData \cup SameDataWithRowIdx, where \in LitWheres :
              Becomes("update", update(value_in_dict, where, Table))

\* Cellbase.delete -> LocalCelltable.delete
Delete ==
    /\ backend = "local"
    /\ \E where \in Wheres : Becomes("delete", delete(where, Table))

\* Cellbase.traverse -> LocalCelltable.traverse
Traverse ==
    /\ backend = "local"
    /\ \E fn \in Fns, where \in LitWheres \cup {NoWhere}, select \in Selects :
           Becomes("traverse", traverse(fn, where, select, Table))

\* Cellbase.query -> LocalCelltable.query, GoogleCelltable.query; the call
\* reads the table only.
Query ==
    \E where \in Wheres :
        LET r == query(where, Table)
            left == Queried(where, Table)
        IN  /\ r.err \in {"none", "KeyError"}
            /\ calls < CallBound
            /\ calls' = calls + 1
            /\ net' = left.net
            /\ heap' = left.heap
            /\ rows' = left.rows
            /\ cols' = left.cols
            /\ col_ids' = left.col_ids
            /\ ws_cells' = left.ws_cells
            /\ ws_current_row' = left.ws_current_row
            /\ _max_row' = left._max_row
            /\ grid' = left.grid
            /\ UNCHANGED <<backend, held, celltables, schemas, worksheets>>

\* Cellbase.insert -> GoogleCelltable.insert
GoogleInsert ==
    /\ backend = "remote"
    /\ _max_row <= MaxRows
    /\ \E value_in_dict \in FullData \cup PartialData :
           Becomes("insert", g_insert(value_in_dict, Table))

\* Cellbase.update -> GoogleCelltable.update
GoogleUpdate ==
    /\ backend = "remote"
    /\ \/ \E value_in_dict \in FullData \cup DataWithRowIdx :
              Becomes("update", g_update(value_in_dict, NoWhere, Table))
       \/ \E value_in_dict \in SameData \cup SameDataWithRowIdx, where \in LitWheres :
              Becomes("update", g_update(value_in_dict, where, Table))

\* Cellbase.delete -> GoogleCelltable.delete
GoogleDelete ==
    /\ backend = "remote"
    /\ \E where \in Wheres : Becomes("delete", g_delete(where, Table))

\* Cellbase.format -> LocalCelltable.format
Format ==
    /\ backend = "local"
    /\ \E formatter \in Formatters, where \in FormatWheres, select \in Selects :
           Becomes("format", format(formatter, where, select, Table))

\* Cellbase.format -> GoogleCelltable.format
GoogleFormat ==
    /\ backend = "remote"
    /\ \E formatter \in Formatters, where \in FormatWheres, select \in Selects :
           Becomes("format", g_format(formatter, where, select, Table))

\* dao[row_idx] = entity -> LocalCelltable.__setitem__
TableSetItem ==
    /\ backend = "local"
    /\ MaxRowOf(ws_cells) <= MaxRows
    /\ \E row_idx \in RowConds, value \in SameData :
           Becomes("__setitem__", Celltable__setitem__(row_idx, value, Table))

\* del dao[row_idx] -> LocalCelltable.__delitem__
TableDelItem ==
    /\ backend = "local"
    /\ \E row_idx \in RowConds :
           Becomes("__delitem__", Celltable__delitem__(row_idx, Table))

\* dao[row_idx] = entity -> GoogleCelltable.__setitem__
GoogleSetItem ==
    /\ backend = "remote"
    /\ _max_row <= MaxRows
    /\ \E row_idx \in RowConds, value \in SameData :
           Becomes("__setitem__", g_Celltable__setitem__(row_idx, value, Table))

\* del dao[row_idx] -> GoogleCelltable.__delitem__
GoogleDelItem ==
    /\ backend = "remote"
    /\ \E row_idx \in RowConds :
           Becomes("__delitem__", g_Celltable__delitem__(row_idx, Table))

\* Cellbase.traverse -> GoogleCelltable.traverse
GoogleTraverse ==
    /\ backend = "remote"
    /\ \E fn \in Fns, where \in LitWheres \cup {NoWhere}, select \in Selects :
           Becomes("traverse", g_traverse(fn, where, select, Table))

Next ==
    \/ Insert \/ Update \/ Delete \/ Traverse \/ Format \/ Query
    \/ GoogleInsert \/ GoogleUpdate \/ GoogleDelete \/ GoogleTraverse
    \/ GoogleFormat
    \/ TableSetItem \/ TableDelItem \/ GoogleSetItem \/ GoogleDelItem

Spec == Init /\ [][Next]_vars

\* ------------------------------------------------- the formatter's calls

\* The names a caller gives: the attributes of both formatter classes and
\* a name of neither.
AttrNames == ATTRIBUTES \cup G_ATTRIBUTES \cup {"size"}

\* The values a caller gives: None, a false value, a true value.
AttrValues == {RetNone, 0, 1}

\* The keyword arguments a caller constructs a formatter with.
Kwargs == UNION {[S -> AttrValues] : S \in SUBSET AttrNames}

\* A call on the formatter leaves the table as it is.
FormatterCall ==
    /\ calls < MaxFormatterCalls
    /\ calls' = calls + 1
    /\ UNCHANGED <<heap, rows, cols, col_ids, ws_cells, ws_current_row,
                   backend, _max_row, grid, net, celltables, schemas, worksheets>>

\* formatter = LocalCellFormatter(**kwargs) / GoogleCellFormatter(**kwargs):
\* when the constructor raises, the caller holds what it held before.
Construct ==
    /\ FormatterCall
    /\ \E kwargs \in Kwargs :
           LET r == __init__(backend, kwargs)
           IN  held' = IF r.err = "none"
                       THEN [made |-> TRUE, dict |-> r.dict] ELSE held

\* formatter.attr = value
SetAttr ==
    /\ held.made
    /\ FormatterCall
    /\ \E attr \in AttrNames, value \in AttrValues :
           held' = [held EXCEPT
                       !.dict = __setattr__(backend, held.dict, attr, value).dict]

\* formatter.attr
GetAttr ==
    /\ held.made
    /\ FormatterCall
    /\ \E attr \in AttrNames :
           held' = [held EXCEPT !.dict = __getattr__(backend, held.dict, attr).dict]

FormatterNext == Construct \/ SetAttr \/ GetAttr

FormatterSpec == Init /\ [][FormatterNext]_vars

\* ---------------------------------------------------------- LocalCellbase

\* The cellbase as one value: celltables, schemas, the workbook's sheets
\* and t, the table celltables holds for TABLE_NAME.
Cellbase == [celltables |-> celltables, schemas |-> schemas,
             worksheets |-> worksheets, t |-> Table]

\* celltables holds no table for TABLE_NAME.
NoTable ==
    [heap |-> <<>>, rows |-> <<>>, cols |-> <<>>, col_ids |-> <<>>,
     ws_cells |-> <<>>, ws_current_row |-> 0, _max_row |-> 0, grid |-> <<>>,
     net |-> NoRequests, batch |-> <<>>]

\* LocalCellbase._on_create's table: the sheet holds the schema as row 1
\* (worksheet.append leaves _current_row at 1) and LocalCelltable.__init__
\* reads col_ids from it, with empty cols and no rows.
LocalCreated ==
    [heap |-> [i \in 1..Len(Schema) |-> Cell(1, i, Schema[i])],
     rows |-> <<>>,
     cols |-> [c \in SchemaNames |-> <<>>],
     col_ids |-> [i \in 1..Len(Schema) |-> [value |-> Schema[i], col_idx |-> i]],
     ws_cells |-> [p \in {<<1, i>> : i \in 1..Len(Schema)} |-> p[2]],
     ws_current_row |-> 1, _max_row |-> 0, grid |-> <<>>,
     net |-> NoRequests, batch |-> <<>>]

\* LocalCellbase._on_create: workbook.create_sheet(title, index=0) puts the
\* new sheet first.  Only TABLE_NAME has a schema to register.
_on_create(worksheet_name, cb) ==
    [cb EXCEPT !.worksheets = <<worksheet_name>> \o @, !.t = LocalCreated]

\* Cellbase.create_if_none that creates a table even when one exists.
create_if_none_Always(worksheet_name, cb) ==
    IF worksheet_name \notin cb.schemas
    THEN [err |-> "ValueError", cb |-> cb]
    ELSE [err |-> "none",
          cb |-> [_on_create(worksheet_name, cb) EXCEPT
                     !.celltables = @ \cup {worksheet_name}]]

\* Cellbase.create_if_none that creates TABLE_NAME's table without a schema.
create_if_none_NoSchema(worksheet_name, cb) ==
    IF worksheet_name \notin cb.celltables
    THEN [err |-> "none",
          cb |-> [_on_create(worksheet_name, cb) EXCEPT
                     !.celltables = @ \cup {worksheet_name}]]
    ELSE [err |-> "none", cb |-> cb]

\* Cellbase.create_if_none
create_if_none(worksheet_name, cb) ==
    IF worksheet_name \notin cb.celltables
    THEN IF worksheet_name \notin cb.schemas
         THEN [err |-> "ValueError", cb |-> cb]
         ELSE [err |-> "none",
               cb |-> [_on_create(worksheet_name, cb) EXCEPT
                          !.celltables = @ \cup {worksheet_name}]]
    ELSE [err |-> "none", cb |-> cb]

\* The title workbook.create_sheet() gives a sheet created without one:
\* "Sheet", with a number when that title is taken.
NewTitle(titles) ==
    IF \E i \in 1..Len(titles) : titles[i] = DefaultTitle
    THEN "Sheet1" ELSE DefaultTitle

\* workbook.remove(worksheet): the sheets without the one of that title.
RECURSIVE Removed(_, _)
Removed(titles, title) ==
    IF titles = <<>> THEN <<>>
    ELSE IF Head(titles) = title THEN Removed(Tail(titles), title)
    ELSE <<Head(titles)>> \o Removed(Tail(titles), title)

\* LocalCellbase._on_drop: self.celltables[worksheet_name] must exist; when
\* the sheet to drop is the only (visible) sheet a new one is created first;
\* then the sheet is removed from the workbook.
_on_drop(worksheet_name, cb) ==
    LET sheets == IF cb.worksheets = <<worksheet_name>>
                  THEN Append(cb.worksheets, NewTitle(cb.worksheets))
                  ELSE cb.worksheets
    IN  [cb EXCEPT !.worksheets = Removed(sheets, worksheet_name)]

\* Cellbase.drop that takes the sheet out of the workbook and keeps the
\* table in celltables.
drop_KeepTable(worksheet_name, cb) ==
    IF worksheet_name \notin cb.celltables
    THEN [err |-> "KeyError", cb |-> cb]
    ELSE [err |-> "none", cb |-> _on_drop(worksheet_name, cb)]

\* Cellbase.drop: _on_drop, then celltables.pop(worksheet_name).
drop(worksheet_name, cb) ==
    IF worksheet_name \notin cb.celltables
    THEN [err |-> "KeyError", cb |-> cb]
    ELSE [err |-> "none",
          cb |-> [_on_drop(worksheet_name, cb) EXCEPT
                     !.celltables = @ \ {worksheet_name},
                     !.t = IF worksheet_name = TABLE_NAME THEN NoTable ELSE @]]

\* Cellbase.__delitem__
Cellbase__delitem__(worksheet_name, cb) == drop(worksheet_name, cb)

\* Cellbase.__setitem__ that stores the table.
Cellbase__setitem__Stores(worksheet_name, celltable, cb) ==
    [err |-> "none",
     cb |-> [cb EXCEPT !.celltables = @ \cup {worksheet_name},
                       !.t = IF worksheet_name = TABLE_NAME THEN celltable ELSE @]]

\* Cellbase.__setitem__
Cellbase__setitem__(worksheet_name, celltable, cb) ==
    [err |-> "AssertionError", cb |-> cb]

\* Cellbase.__contains__
Cellbase__contains__(worksheet_name, cb) == worksheet_name \in cb.celltables

\* Cellbase.__len__
Cellbase__len__(cb) == Cardinality(cb.celltables)

\* self.celltables[worksheet_name]: the rows of a table other than
\* TABLE_NAME's are not followed.
TableOf(worksheet_name, cb) ==
    IF worksheet_name = TABLE_NAME THEN cb.t ELSE NoTable

\* The outcome of a Cellbase operation whose create_if_none raised.
Refused(c) == [err |-> c.err, ret |-> RetNone, cb |-> c.cb]

\* The outcome of a Cellbase operation: the table's outcome r on the
\* cellbase create_if_none left.
Outcome(worksheet_name, r, cb) ==
    [err |-> r.err, ret |-> r.ret,
     cb |-> IF worksheet_name = TABLE_NAME THEN [cb EXCEPT !.t = r.t] ELSE cb]

\* Cellbase.__getitem__
Cellbase__getitem__(worksheet_name, cb) ==
    LET c == create_if_none(worksheet_name, cb)
    IN  IF c.err # "none" THEN Refused(c)
        ELSE [err |-> "none", ret |-> TableOf(worksheet_name, c.cb), cb |-> c.cb]

\* Cellbase.query
Cellbase_query(worksheet_name, where, cb) ==
    LET c == create_if_none(worksheet_name, cb)
    IN  IF c.err # "none" THEN Refused(c)
        ELSE LET r == query(where, TableOf(worksheet_name, c.cb))
             IN  [err |-> r.err, ret |-> r.val, cb |-> c.cb]

\* Cellbase.insert
Cellbase_insert(worksheet_name, value_in_dict, cb) ==
    LET c == create_if_none(worksheet_name, cb)
    IN  IF c.err # "none" THEN Refused(c)
        ELSE Outcome(worksheet_name,
                     insert(value_in_dict, TableOf(worksheet_name, c.cb)), c.cb)

\* Cellbase.update
Cellbase_update(worksheet_name, value_in_dict, where, cb) ==
    LET c == create_if_none(worksheet_name, cb)
    IN  IF c.err # "none" THEN Refused(c)
        ELSE Outcome(worksheet_name,
                     update(value_in_dict, where, TableOf(worksheet_name, c.cb)),
                     c.cb)

\* Cellbase.delete
Cellbase_delete(worksheet_name, where, cb) ==
    LET c == create_if_none(worksheet_name, cb)
    IN  IF c.err # "none" THEN Refused(c)
        ELSE Outcome(worksheet_name,
                     delete(where, TableOf(worksheet_name, c.cb)), c.cb)

\* Cellbase.traverse
Cellbase_traverse(worksheet_name, fn, where, select, cb) ==
    LET c == create_if_none(worksheet_name, cb)
    IN  IF c.err # "none" THEN Refused(c)
        ELSE Outcome(worksheet_name,
                     traverse(fn, where, select, TableOf(worksheet_name, c.cb)),
                     c.cb)

\* Cellbase.format
Cellbase_format(worksheet_name, formatter, where, select, cb) ==
    LET c == create_if_none(worksheet_name, cb)
    IN  IF c.err # "none" THEN Refused(c)
        ELSE Outcome(worksheet_name,
                     format(formatter, where, select, TableOf(worksheet_name, c.cb)),
                     c.cb)

\* ------------------------------------------------- the cellbase's calls

\* LocalCellbase().load(path, filename) of a file that does not exist: a new
\* Workbook() whose one sheet gets a table; nothing is registered.
CellbaseInit ==
    /\ heap = NoTable.heap
    /\ rows = NoTable.rows
    /\ cols = NoTable.cols
    /\ col_ids = NoTable.col_ids
    /\ ws_cells = NoTable.ws_cells
    /\ ws_current_row = NoTable.ws_current_row
    /\ _max_row = NoTable._max_row
    /\ grid = NoTable.grid
    /\ net = NoRequests
    /\ backend = "local"
    /\ calls = 0
    /\ held = NoFormatter
    /\ celltables = {DefaultTitle}
    /\ schemas = {}
    /\ worksheets = <<DefaultTitle>>

\* The worksheet names a caller gives: the registered one, the default
\* sheet's, and one that is never registered.
Names == {TABLE_NAME, DefaultTitle, "Other"}

\* The names data operations are called with.
DataNames == {TABLE_NAME, "Other"}

\* The state after a call on the cellbase with outcome r.
CellbaseBecomes(r) ==
    /\ calls < MaxCellbaseCalls
    /\ calls' = calls + 1
    /\ celltables' = r.cb.celltables
    /\ schemas' = r.cb.schemas
    /\ worksheets' = r.cb.worksheets
    /\ heap' = r.cb.t.heap
    /\ rows' = r.cb.t.rows
    /\ cols' = r.cb.t.cols
    /\ col_ids' = r.cb.t.col_ids
    /\ ws_cells' = r.cb.t.ws_cells
    /\ ws_current_row' = r.cb.t.ws_current_row
    /\ _max_row' = r.cb.t._max_row
    /\ grid' = r.cb.t.grid
    /\ net' = r.cb.t.net
    /\ UNCHANGED <<backend, held>>

\* cellbase.register(SimpleDAO.on_create())
Register ==
    /\ TABLE_NAME \notin schemas
    /\ schemas' = schemas \cup {TABLE_NAME}
    /\ UNCHANGED <<heap, rows, cols, col_ids, ws_cells, ws_current_row, backend,
                   _max_row, grid, net, calls, held, celltables, worksheets>>

\* cellbase.insert(name, value_in_dict)
CellbaseInsert ==
    /\ MaxRowOf(ws_cells) <= MaxRows
    /\ \E worksheet_name \in DataNames, value_in_dict \in FullData :
           CellbaseBecomes(Cellbase_insert(worksheet_name, value_in_dict, Cellbase))

\* cellbase.delete(name, where)
CellbaseDelete ==
    \E worksheet_name \in DataNames, where \in {NoWhere} \cup OneClause :
        CellbaseBecomes(Cellbase_delete(worksheet_name, where, Cellbase))

\* cellbase.query(name, where)
CellbaseQuery ==
    \E worksheet_name \in DataNames, where \in {NoWhere} \cup OneClause :
        CellbaseBecomes(Cellbase_query(worksheet_name, where, Cellbase))

\* cellbase.drop(name), del cellbase[name]
Drop ==
    \E worksheet_name \in Names : CellbaseBecomes(drop(worksheet_name, Cellbase))

\* cellbase[name] = celltable
SetItem ==
    \E worksheet_name \in Names :
        CellbaseBecomes(Cellbase__setitem__(worksheet_name, LocalCreated, Cellbase))

CellbaseNext ==
    \/ Register \/ CellbaseInsert \/ CellbaseDelete \/ CellbaseQuery
    \/ Drop \/ SetItem

CellbaseSpec == CellbaseInit /\ [][CellbaseNext]_vars

\* ------------------------------------- a remote table on a filled worksheet

\* The worksheets a remote table is constructed from: the schema in row 1
\* and up to MaxFetchedRows rows below it, any cell of them empty or not.
Grids ==
    UNION {{<<Schema>> \o body :
               body \in [1..n -> [1..Len(Schema) -> FetchedVals]]} :
           n \in 0..MaxFetchedRows}

\* The rows a caller inserts into such a table.
FetchedData == [SchemaNames -> FetchedVals]

\* GoogleCelltable(worksheet) on a worksheet that holds data.
FetchInit ==
    \E all_rows \in Grids :
        LET t == GoogleCelltable__init__(all_rows)
        IN  /\ heap = t.heap
            /\ rows = t.rows
            /\ cols = t.cols
            /\ col_ids = t.col_ids
            /\ ws_cells = t.ws_cells
            /\ ws_current_row = t.ws_current_row
            /\ _max_row = t._max_row
            /\ grid = t.grid
            /\ net = t.net
            /\ backend = "remote"
            /\ calls = 0
            /\ held = NoFormatter
            /\ celltables = {TABLE_NAME}
            /\ schemas = {TABLE_NAME}
            /\ worksheets = <<TABLE_NAME>>

FetchedInsert ==
    /\ calls < MaxFetchCalls
    /\ \E value_in_dict \in FetchedData :
           Becomes("insert", g_insert(value_in_dict, Table))

FetchNext == FetchedInsert

FetchSpec == FetchInit /\ [][FetchNext]_vars

\* -------------------------------------- a local table on a filled worksheet

\* The header rows of the worksheets a local table is constructed from: the
\* schema with one more column that has no header, after it or inside it.
Headers == {Schema \o <<NoHeader>>, <<Schema[1], NoHeader>> \o Tail(Schema)}

\* The worksheets: a header row and up to MaxLoadedRows rows with a value
\* in every cell.
Sheets ==
    UNION {{<<header>> \o body :
               header \in Headers,
               body \in [1..n -> [1..(Len(Schema) + 1) -> Vals]]} :
           n \in 0..MaxLoadedRows}

\* LocalCelltable(worksheet) on a worksheet that holds data.
LoadInit ==
    \E sheet \in Sheets :
        LET t == LocalCelltable__init__(sheet)
        IN  /\ heap = t.heap
            /\ rows = t.rows
            /\ cols = t.cols
            /\ col_ids = t.col_ids
            /\ ws_cells = t.ws_cells
            /\ ws_current_row = t.ws_current_row
            /\ _max_row = t._max_row
            /\ grid = t.grid
            /\ net = t.net
            /\ backend = "local"
            /\ calls = 0
            /\ held = NoFormatter
            /\ celltables = {TABLE_NAME}
            /\ schemas = {TABLE_NAME}
            /\ worksheets = <<TABLE_NAME>>

LoadedInsert ==
    /\ calls < MaxLoadCalls
    /\ MaxRowOf(ws_cells) <= MaxRows
    /\ \E value_in_dict \in FullData :
           Becomes("insert", insert(value_in_dict, Table))

LoadedDelete ==
    /\ calls < MaxLoadCalls
    /\ \E where \in Wheres : Becomes("delete", delete(where, Table))

LoadNext == LoadedInsert \/ LoadedDelete

LoadSpec == LoadInit /\ [][LoadNext]_vars

\* ------------------------------------------------------------- properties

\* The row indices and the column values of the records of a query result.
RowIdxsOf(records) == [i \in 1..Len(records) |-> records[i].row_idx]

ValuesOf(records) == [i \in 1..Len(records) |-> records[i].values]

\* The keys of rows are exactly 2..len+1, each once.
Contiguous(rws) ==
    /\ KeySet(rws) = 2..(Len(rws) + 1)
    /\ \A i, j \in 1..Len(rws) : rws[i].k = rws[j].k => i = j

\* What the table's readers see: rows, cols, the length and the cell values.
Logical(t) ==
    [rows   |-> [i \in 1..Len(t.rows) |->
                    [k |-> t.rows[i].k,
                     values |-> [c \in DOMAIN t.rows[i].cells |->
                                    t.heap[t.rows[i].cells[c]].value]]],
     cols   |-> [c \in DOMAIN t.cols |->
                    [n \in 1..Len(t.cols[c]) |->
                        [row |-> t.heap[t.cols[c][n]].row,
                         value |-> t.heap[t.cols[c][n]].value]]],
     length |-> Len(t.rows)]

\* C1: from a header-only table, after every insert or delete that
\* completes, in any sequence of such calls, the keys of rows are exactly
\* 2..len(table)+1: no gap and no duplicate.
C1_RowKeysContiguous ==
    backend = "local" =>
        /\ \A value_in_dict \in FullData :
               LET r == insert(value_in_dict, Table)
               IN  (MaxRowOf(ws_cells) <= MaxRows /\ r.err = "none") => Contiguous(r.t.rows)
        /\ \A where \in Wheres :
               LET r == delete(where, Table)
               IN  r.err = "none" => Contiguous(r.t.rows)

\* C2: on a table holding rows 2..n+1, delete with a row-index condition
\* (literal or predicate) that selects a non-empty set D returns |D|; then
\* query() returns n-|D| records, with row indices 2..n-|D|+1, whose values
\* are those of the rows outside D in their original order.
C2_DeleteCompacts ==
    backend = "local" =>
        \A cond \in RowConds :
            LET n == Len(rows)
                D == {k \in KeySet(rows) : Holds(cond, k)}
                before == query(NoWhere, Table).val
                survivors == SelectSeq(before, LAMBDA rec : rec.row_idx \notin D)
                r == delete(Dict(<<Clause(COL_ROW_IDX, cond)>>), Table)
                after == query(NoWhere, r.t)
            IN  (Contiguous(rows) /\ D # {}) =>
                    /\ r.err = "none"
                    /\ r.ret = Cardinality(D)
                    /\ after.err = "none"
                    /\ RowIdxsOf(after.val) = [i \in 1..(n - Cardinality(D)) |-> i + 1]
                    /\ ValuesOf(after.val) = ValuesOf(survivors)

\* C3: insert(data) on a table holding n rows, however inserts and deletes
\* have led to it, returns n+2 and makes the table one longer; the rows it
\* held keep their values, and query({row_idx: n+2}) then returns exactly
\* one record, whose columns equal data.
C3_InsertAppends ==
    backend = "local" =>
        \A data \in FullData :
            LET n == Len(rows)
                before == query(NoWhere, Table).val
                r == insert(data, Table)
                after == query(NoWhere, r.t).val
                found == query(Dict(<<Clause(COL_ROW_IDX, Lit(n + 2))>>), r.t)
            IN  MaxRowOf(ws_cells) <= MaxRows =>
                    /\ r.err = "none"
                    /\ r.ret = n + 2
                    /\ Len(r.t.rows) = n + 1
                    /\ ValuesOf(SubSeq(after, 1, n)) = ValuesOf(before)
                    /\ found.err = "none"
                    /\ Len(found.val) = 1
                    /\ found.val[1].values = data

\* A clause of a where holds on the row with index k of table t.
ClauseHolds(clause, k, t) ==
    IF clause.key = COL_ROW_IDX
    THEN Holds(clause.cond, k)
    ELSE Holds(clause.cond, RowRecord(k, t).values[clause.key])

\* C4: query(where) with several clauses returns exactly the rows on which
\* every clause holds, the row-index clause on the row index and a column
\* clause on the value of that row's cell.
C4_QueryConjunction ==
    backend = "local" =>
        \A where \in RowAndCol \cup ColAndCol :
            LET q == query(where, Table)
            IN  q.err = "none" =>
                    {q.val[i].row_idx : i \in 1..Len(q.val)}
                        = {k \in KeySet(rows) :
                              \A n \in 1..Len(where.clauses) :
                                  ClauseHolds(where.clauses[n], k, Table)}

\* C5: update with data that has the row_idx key and with a where updates
\* only the row that data's row_idx names: that row takes data's values and
\* every other row, matched by where or not, stays as it was.
C5_RowIdxOverridesWhere ==
    backend = "local" =>
        \A data \in SameDataWithRowIdx, where \in LitWheres :
            LET before == query(NoWhere, Table).val
                r == update(data, where, Table)
                after == query(NoWhere, r.t).val
            IN  (data[COL_ROW_IDX] \in KeySet(rows) /\ r.err = "none") =>
                    /\ RowIdxsOf(after) = RowIdxsOf(before)
                    /\ \A i \in 1..Len(before) :
                           IF before[i].row_idx = data[COL_ROW_IDX]
                           THEN \A c \in SchemaNames : after[i].values[c] = data[c]
                           ELSE after[i] = before[i]

\* C6: delete(where) with a where that matches no row returns 0 and leaves
\* rows, cols, the length and the worksheet's cells unchanged.
C6_DeleteNoMatch ==
    backend = "local" =>
        \A where \in Wheres :
            LET matched == _row_and_col_where(where, Table)
                r == delete(where, Table)
            IN  (matched.err = "none" /\ matched.val = <<>>) =>
                    /\ r.err = "none"
                    /\ r.ret = 0
                    /\ r.t = Table

\* C7: query with a predicate on row_idx returns exactly the rows whose row
\* index satisfies the predicate, in ascending order of row index.
C7_PredicateOnRowIdx ==
    backend = "local" =>
        \A S \in SUBSET RowIdxs :
            LET q == query(Dict(<<Clause(COL_ROW_IDX, Pred(S))>>), Table)
                idxs == RowIdxsOf(q.val)
            IN  /\ q.err = "none"
                /\ {idxs[i] : i \in 1..Len(idxs)} = KeySet(rows) \cap S
                /\ \A i, j \in 1..Len(idxs) : i < j => idxs[i] < idxs[j]

\* C8: update with data that lacks the row_idx key and without a where
\* fails with an error and modifies no cell of the table, on either backend.
C8_UpdateNeedsRowIdx ==
    \A data \in FullData \cup PartialData :
        LET r == IF backend = "local"
                 THEN update(data, NoWhere, Table)
                 ELSE g_update(data, NoWhere, Table)
        IN  /\ r.err = "KeyError"
            /\ r.t = Table

\* A table with rows on which such an update fails.
C8_Witness ==
    /\ backend = "local"
    /\ Len(rows) >= 2
    /\ \E data \in FullData :
           /\ \E i \in 1..Len(rows) : \E c \in SchemaNames :
                  RowRecord(rows[i].k, Table).values[c] # data[c]
           /\ update(data, NoWhere, Table).err = "KeyError"
           /\ Logical(update(data, NoWhere, Table).t) = Logical(Table)

\* A where that names a column the table does not have.
UnknownWheres ==
    {Dict(<<Clause("nosuch", Lit(0))>>),
     Dict(<<Clause(COL_ROW_IDX, Lit(2)), Clause("nosuch", Lit(0))>>),
     Dict(<<Clause(Schema[1], Lit(0)), Clause("nosuch", Pred({0}))>>)}

\* C9: traverse with an fn that is not callable raises a type error and
\* nothing has happened before it: for every where and select and on both
\* backends no cell is mutated, the worksheet is as it was, and on the remote
\* backend no request (no update_cells) is sent.  The type error comes even
\* for a where whose evaluation would fail.
C9_TraverseNotCallable ==
    \A where \in Wheres \cup UnknownWheres, select \in Selects :
        LET r == IF backend = "local"
                 THEN traverse(NotCallable, where, select, Table)
                 ELSE g_traverse(NotCallable, where, select, Table)
        IN  /\ r.err = "TypeError"
            /\ r.t = Table

\* A remote table with rows, whose latest call was a traverse that sent
\* update_cells, refuses an fn that is not callable and sends nothing.
C9_Witness ==
    /\ backend = "remote"
    /\ Len(rows) >= 2
    /\ net["update_cells"] = 1
    /\ LET r == g_traverse(NotCallable, NoWhere, AllColumns, Table)
       IN  /\ r.err = "TypeError"
           /\ r.t.net = NoRequests
           /\ r.t.grid = grid

\* C10: an insert, update, delete or traverse that ends in a failure leaves
\* rows, cols, the length and the cell values as they were before the call.
C10_AllOrNothing ==
    backend = "local" =>
        /\ \A value_in_dict \in FullData \cup PartialData :
               LET r == insert(value_in_dict, Table)
               IN  r.err # "none" => Logical(r.t) = Logical(Table)
        /\ \A value_in_dict \in FullData \cup DataWithRowIdx :
               LET r == update(value_in_dict, NoWhere, Table)
               IN  r.err # "none" => Logical(r.t) = Logical(Table)
        /\ \A value_in_dict \in SameData \cup SameDataWithRowIdx, where \in LitWheres :
               LET r == update(value_in_dict, where, Table)
               IN  r.err # "none" => Logical(r.t) = Logical(Table)
        /\ \A where \in Wheres :
               LET r == delete(where, Table)
               IN  r.err # "none" => Logical(r.t) = Logical(Table)
        /\ \A fn \in Fns, where \in LitWheres \cup {NoWhere}, select \in Selects :
               LET r == traverse(fn, where, select, Table)
               IN  r.err # "none" => Logical(r.t) = Logical(Table)

\* C11: query, delete and traverse with a where clause on a name that is no
\* column of the table fail with a KeyError, on either backend, and leave the
\* table as it was: rows, cols, cells, worksheet, and no request sent.
C11_UnknownColumn ==
    \A where \in UnknownWheres :
        /\ query(where, Table).err = "KeyError"
        /\ LET r == IF backend = "local" THEN delete(where, Table)
                    ELSE g_delete(where, Table)
           IN  r.err = "KeyError" /\ r.t = Table
        /\ \A fn \in Fns \ {NotCallable}, select \in Selects :
               LET r == IF backend = "local" THEN traverse(fn, where, select, Table)
                        ELSE g_traverse(fn, where, select, Table)
               IN  r.err = "KeyError" /\ r.t = Table

\* A remote table with two rows on which the known clause of the where
\* holds refuses the delete and the traverse.
C11_Witness ==
    LET where == Dict(<<Clause(Schema[1], Lit(0)), Clause("nosuch", Pred({0}))>>)
        r == IF backend = "local" THEN delete(where, Table) ELSE g_delete(where, Table)
        s == IF backend = "local" THEN traverse(SetValue(1), where, AllColumns, Table)
             ELSE g_traverse(SetValue(1), where, AllColumns, Table)
    IN  /\ backend = "remote"
        /\ Len(rows) >= 2
        /\ Len(query(Dict(<<Clause(Schema[1], Lit(0))>>), Table).val) >= 2
        /\ r.err = "KeyError" /\ r.t = Table
        /\ s.err = "KeyError" /\ s.t = Table

\* The worksheet holds, for every row of rows and every column, a cell at
\* (row, column index) with the value query reports, and no row below
\* len(table) + 1.
PhysicalStore(t) ==
    /\ \A i \in 1..Len(t.rows), j \in 1..Len(t.col_ids) :
           LET p == <<t.rows[i].k, t.col_ids[j].col_idx>>
           IN  /\ p \in DOMAIN t.ws_cells
               /\ t.heap[t.ws_cells[p]].value
                      = RowRecord(t.rows[i].k, t).values[t.col_ids[j].value]
    /\ \A p \in DOMAIN t.ws_cells : p[1] <= Len(t.rows) + 1

\* C12: on the local table, a call of insert, update, delete or traverse
\* that returns leaves the worksheet in line with what query reports: from a
\* table whose worksheet is in line, every such call ends with it in line.
C12_PhysicalStore ==
    (backend = "local" /\ PhysicalStore(Table)) =>
        /\ \A value_in_dict \in FullData :
               LET r == insert(value_in_dict, Table)
               IN  r.err = "none" => PhysicalStore(r.t)
        /\ \A value_in_dict \in DataWithRowIdx :
               LET r == update(value_in_dict, NoWhere, Table)
               IN  r.err = "none" => PhysicalStore(r.t)
        /\ \A value_in_dict \in FullData, where \in LitWheres :
               LET r == update(value_in_dict, where, Table)
               IN  r.err = "none" => PhysicalStore(r.t)
        /\ \A where \in Wheres :
               LET r == delete(where, Table)
               IN  r.err = "none" => PhysicalStore(r.t)
        /\ \A fn \in Fns, where \in LitWheres \cup {NoWhere}, select \in Selects :
               LET r == traverse(fn, where, select, Table)
               IN  r.err = "none" => PhysicalStore(r.t)

\* The wheres of two literal clauses.
TwoClauses == {where \in LitWheres : Len(where.clauses) = 2}

\* The rows of the table that query(where) does not return hold in `after`
\* the values they hold now.
OthersKept(where, after) ==
    LET matched == query(where, Table)
    IN  matched.err = "none" =>
            \A i \in 1..Len(rows) :
                ~InSeq(rows[i].k, RowIdxsOf(matched.val)) =>
                    /\ rows[i].k \in KeySet(after.rows)
                    /\ RowRecord(rows[i].k, after) = RowRecord(rows[i].k, Table)

\* C13: update(data, where) and traverse(fn, where) with a where of several
\* clauses change only the rows on which every clause holds, the rows that
\* query(where) returns; a row on which one clause holds alone keeps its
\* values.
C13_WhereConjunction ==
    \A where \in TwoClauses :
        /\ \A fn \in Fns \ {NotCallable} :
               LET r == IF backend = "local"
                        THEN traverse(fn, where, AllColumns, Table)
                        ELSE g_traverse(fn, where, AllColumns, Table)
               IN  r.err = "none" => OthersKept(where, r.t)
        /\ \A value_in_dict \in FullData :
               LET r == IF backend = "local"
                        THEN update(value_in_dict, where, Table)
                        ELSE g_update(value_in_dict, where, Table)
               IN  r.err = "none" => OthersKept(where, r.t)

\* C14: update(data) with the row index in data and no where returns 1 and
\* writes data[column] into the cell of every column of that row, the first
\* column too: the row then reads as data on every column.
C14_UpdateByRowIdx ==
    \A value_in_dict \in DataWithRowIdx :
        LET r == IF backend = "local" THEN update(value_in_dict, NoWhere, Table)
                 ELSE g_update(value_in_dict, NoWhere, Table)
        IN  r.err = "none" =>
                /\ r.ret = 1
                /\ RowRecord(value_in_dict[COL_ROW_IDX], r.t).values
                       = [c \in SchemaNames |-> value_in_dict[c]]

\* The rows whose cells a traverse with this where hands to fn.
RowsTouched(where, t) ==
    LET row_idxs_where == _row_idxs_where(where, t).val
    IN  {row_idxs_where[i] : i \in 1..Len(row_idxs_where)}

\* C15: traverse, and update with a where, return the number of distinct
\* rows whose cells went to the mutator; a row on which several clauses hold
\* counts once.
C15_CountsDistinctRows ==
    \A where \in LitWheres \cup {NoWhere} :
        /\ \A fn \in Fns \ {NotCallable}, select \in Selects :
               LET r == IF backend = "local" THEN traverse(fn, where, select, Table)
                        ELSE g_traverse(fn, where, select, Table)
               IN  r.err = "none" => r.ret = Cardinality(RowsTouched(where, Table))
        /\ \A value_in_dict \in FullData :
               LET r == IF backend = "local" THEN update(value_in_dict, where, Table)
                        ELSE g_update(value_in_dict, where, Table)
               IN  (~where.none /\ r.err = "none") =>
                       r.ret = Cardinality(RowsTouched(where, Table))

\* The columns a select names.
Selected(select, t) ==
    IF select.none THEN {t.col_ids[i].value : i \in 1..Len(t.col_ids)}
    ELSE select.names

\* The request counters of a call that sent one update_cells and nothing else.
OneUpdateCells == [NoRequests EXCEPT !["update_cells"] = 1]

\* C16: on the remote backend a traverse that returns has sent exactly one
\* update_cells request and no other request, however many rows and columns
\* it touched, and the request carries every cell that went to fn.
C16_OneBatchedUpdate ==
    backend = "remote" =>
        \A fn \in Fns \ {NotCallable}, where \in LitWheres \cup {NoWhere},
           select \in Selects :
            LET r == g_traverse(fn, where, select, Table)
            IN  r.err = "none" =>
                    /\ r.t.net = OneUpdateCells
                    /\ \A row_idx \in RowsTouched(where, Table),
                          c \in Selected(select, Table) :
                           InSeq(DictGet(rows, row_idx)[c], r.t.batch)

\* A remote table of three rows: a traverse over all of them and both
\* columns sends one update_cells that carries the six cells.
C16_Witness ==
    /\ backend = "remote"
    /\ Len(rows) = 3
    /\ LET r == g_traverse(SetValue(1), NoWhere, AllColumns, Table)
       IN  /\ r.err = "none"
           /\ r.ret = 3
           /\ r.t.net = OneUpdateCells
           /\ Len(r.t.batch) = 6
           /\ \A i \in 1..3, c \in SchemaNames : InSeq(rows[i].cells[c], r.t.batch)

\* The number of requests a call has sent.
RequestsOf(t) ==
    t.net["get_all_values"] + t.net["insert_rows"] + t.net["get_row"]
        + t.net["update_cells"] + t.net["update_value"] + t.net["delete_rows"]
        + t.net["get_values"]

\* C17: on the remote backend one delete sends at most one request to the
\* worksheet, however many rows it deletes and wherever they lie.
C17_DeleteOneRequest ==
    backend = "remote" =>
        \A where \in Wheres :
            LET r == g_delete(where, Table)
            IN  r.err = "none" => RequestsOf(r.t) <= 1

\* A remote table of n rows keyed 2..n+1 that reports n as its length.
RowsFrom2(t) ==
    /\ Contiguous(t.rows)
    /\ g_len(t) = Len(t.rows)

\* cols[c] holds one cell per row, in row order: cols[c][r - 2] (counted
\* from 0) is the cell of row r under c.
ColsFollowRows(t) ==
    \A c \in DOMAIN t.cols :
        /\ Len(t.cols[c]) = Len(t.rows)
        /\ \A i \in 1..Len(t.rows) :
               /\ t.rows[i].k - 1 \in 1..Len(t.cols[c])
               /\ t.cols[c][t.rows[i].k - 1] = t.rows[i].cells[c]

\* C18: on the remote backend, deleting a non-empty set D of rows from a
\* table whose rows are keyed 2..n+1 completes without error, leaves the
\* rows keyed 2..n-|D|+1 and the length n-|D|, and leaves in every list of
\* cols one cell per remaining row, in row order.
C18_RemoteDeleteCompacts ==
    (backend = "remote" /\ RowsFrom2(Table)) =>
        \A where \in Wheres :
            LET D == query(where, Table)
                r == g_delete(where, Table)
            IN  (D.err = "none" /\ Len(D.val) > 0) =>
                    /\ r.err = "none"
                    /\ RowsFrom2(r.t)
                    /\ Len(r.t.rows) = Len(rows) - Len(D.val)
                    /\ ColsFollowRows(r.t)

\* C19: the remote table is fetched lazily: its construction sends no read
\* to the worksheet; the first call of query, insert, delete or traverse
\* sends the one full-range read, and no later call sends it again.
C19_LazyFetch ==
    backend = "remote" =>
        /\ calls = 0 => net["get_all_values"] = 0
        /\ calls = 1 => net["get_all_values"] = 1
        /\ calls > 1 => net["get_all_values"] = 0

\* C20: format with a formatter that holds no set attribute and without a
\* where returns 0 and changes no cell.
C20_EmptyFormat ==
    \A select \in Selects :
        LET r == IF backend = "local"
                 THEN format(CellFormatter(<<>>), NoWhere, select, Table)
                 ELSE g_format(CellFormatter(<<>>), NoWhere, select, Table)
        IN  /\ r.err = "none"
            /\ r.ret = 0
            /\ r.t = Table

\* The formatters that hold any of the attributes.
AnyFormatters ==
    {CellFormatter(kwargs) : kwargs \in UNION {[S -> {1}] : S \in SUBSET ATTRIBUTES}}

\* The style of a cell under the attributes a formatter holds: those
\* attributes take the formatter's values, the others stay.
StyledBy(formatter, style) ==
    [attr \in DOMAIN style \cup DOMAIN formatter.dict |->
        IF attr \in DOMAIN formatter.dict THEN formatter.dict[attr] ELSE style[attr]]

\* C21: format(formatter, where) sets every attribute the formatter holds on
\* every cell of the rows that where matches, leaves the other attributes of
\* those cells as they were, and leaves the cells of the other rows as they
\* were.
C21_FormatMatchedRows ==
    \A formatter \in AnyFormatters, where \in LitWheres :
        LET r == IF backend = "local" THEN format(formatter, where, AllColumns, Table)
                 ELSE g_format(formatter, where, AllColumns, Table)
            matched == query(where, Table)
        IN  (r.err = "none" /\ matched.err = "none") =>
                \A i \in 1..Len(rows) : \A c \in DOMAIN rows[i].cells :
                    /\ rows[i].k \in KeySet(r.t.rows)
                    /\ r.t.heap[DictGet(r.t.rows, rows[i].k)[c]].style
                           = IF InSeq(rows[i].k, RowIdxsOf(matched.val))
                             THEN StyledBy(formatter, heap[rows[i].cells[c]].style)
                             ELSE heap[rows[i].cells[c]].style

\* C22: a formatter takes the names of its class's attribute set and no
\* other.  Constructed with keywords all inside the set it holds exactly the
\* keywords; constructed with a keyword outside the set the constructor
\* raises AttributeError and no formatter comes to hold anything.  Assigning
\* a name of the set stores the value under it; assigning a name outside the
\* set raises AttributeError, leaves __dict__ as it was, and the name is no
\* key of __dict__.
C22_FormatterRejects ==
    /\ \A kwargs \in Kwargs :
           LET r == __init__(backend, kwargs)
           IN  IF DOMAIN kwargs \subseteq attrs(backend)
               THEN r.err = "none" /\ r.made /\ r.dict = kwargs
               ELSE r.err = "AttributeError" /\ ~r.made /\ r.dict = <<>>
    /\ held.made =>
           \A attr \in AttrNames, value \in AttrValues :
               LET r == __setattr__(backend, held.dict, attr, value)
               IN  IF attr \in attrs(backend)
                   THEN /\ r.err = "none"
                        /\ attr \in DOMAIN r.dict
                        /\ r.dict[attr] = value
                        /\ \A a \in DOMAIN held.dict \ {attr} :
                               a \in DOMAIN r.dict /\ r.dict[a] = held.dict[a]
                   ELSE /\ r.err = "AttributeError"
                        /\ r.dict = held.dict
                        /\ attr \notin DOMAIN r.dict

\* A GoogleCellFormatter that holds a note is assigned font, an attribute
\* of LocalCellFormatter only, and constructed with it: both raise.
C22_Witness ==
    /\ backend = "remote"
    /\ held.made
    /\ "note" \in DOMAIN held.dict
    /\ held.dict["note"] = 1
    /\ __setattr__(backend, held.dict, "font", 1).err = "AttributeError"
    /\ __init__(backend, [note |-> 1, font |-> 1]).err = "AttributeError"
    /\ __setattr__(backend, held.dict, "color", 0).err = "none"

\* ------------------------------------------------ claims on the cellbase

\* What a call of the cellbase leaves: the error raised and the cellbase.
Left(r) == [err |-> r.err, cb |-> r.cb]

\* What every data operation of the cellbase leaves on one worksheet name:
\* indexed access, query, insert, update, delete, traverse, format.
DataOperations(worksheet_name) ==
    {Left(Cellbase__getitem__(worksheet_name, Cellbase))}
        \cup {Left(Cellbase_query(worksheet_name, where, Cellbase)) :
                  where \in {NoWhere} \cup OneClause}
        \cup {Left(Cellbase_insert(worksheet_name, value_in_dict, Cellbase)) :
                  value_in_dict \in FullData}
        \cup {Left(Cellbase_update(worksheet_name, value_in_dict, NoWhere, Cellbase)) :
                  value_in_dict \in FullData \cup DataWithRowIdx}
        \cup {Left(Cellbase_delete(worksheet_name, where, Cellbase)) :
                  where \in {NoWhere} \cup OneClause}
        \cup {Left(Cellbase_traverse(worksheet_name, fn, NoWhere, AllColumns,
                                     Cellbase)) : fn \in Fns}
        \cup {Left(Cellbase_format(worksheet_name, formatter, Dict(<<>>), AllColumns,
                                   Cellbase)) : formatter \in Formatters}

\* C23: on a worksheet name that has no table in celltables and no
\* registered schema, every data operation raises ValueError and leaves
\* celltables, the workbook's sheets and the table as they were.
C23_NoSchemaRefused ==
    \A worksheet_name \in Names :
        (worksheet_name \notin celltables /\ worksheet_name \notin schemas) =>
            \A r \in DataOperations(worksheet_name) :
                r.err = "ValueError" /\ r.cb = Cellbase

\* The default sheet's table was dropped while TABLE_NAME's table holds
\* rows: an insert on the default sheet's name and one on a name never
\* registered are refused.
C23_Witness ==
    /\ DefaultTitle \notin celltables
    /\ TABLE_NAME \in celltables
    /\ Len(rows) >= 1
    /\ \A worksheet_name \in {DefaultTitle, "Other"} :
           Cellbase_insert(worksheet_name, [c \in SchemaNames |-> 1], Cellbase).err
               = "ValueError"

\* The column names of a table, in the order of col_ids.
ColumnNames(t) == [i \in 1..Len(t.col_ids) |-> t.col_ids[i].value]

\* C24: on a registered worksheet name without a table, a data operation
\* first creates one table, of the schema's columns in schema order and with
\* no rows, and works on it (a query of everything returns nothing, an
\* insert makes its only row).  On a name that has a table, a data operation
\* creates nothing and works on the table at hand: a query through the
\* cellbase returns what the table returns, every row it holds included.
C24_CreateOnce ==
    \A worksheet_name \in DataNames :
        LET c == create_if_none(worksheet_name, Cellbase)
            q == Cellbase_query(worksheet_name, NoWhere, Cellbase)
        IN  /\ (worksheet_name \notin celltables /\ worksheet_name \in schemas) =>
                   /\ c.err = "none"
                   /\ c.cb.celltables = celltables \cup {worksheet_name}
                   /\ ColumnNames(c.cb.t) = Schema
                   /\ c.cb.t.rows = <<>>
                   /\ q.err = "none" /\ q.ret = <<>> /\ q.cb = c.cb
                   /\ \A value_in_dict \in FullData :
                          LET i == Cellbase_insert(worksheet_name, value_in_dict,
                                                   Cellbase)
                          IN  i.err = "none" /\ Len(i.cb.t.rows) = 1
            /\ worksheet_name \in celltables =>
                   /\ c.err = "none" /\ c.cb = Cellbase
                   /\ q.err = "none" /\ q.cb = Cellbase
                   /\ q.ret = query(NoWhere, Table).val
                   /\ Len(q.ret) = Len(rows)
                   /\ \A value_in_dict \in FullData :
                          Cellbase_insert(worksheet_name, value_in_dict, Cellbase).cb.t
                              = insert(value_in_dict, Table).t

\* TABLE_NAME's table was created by the first operation and holds the two
\* rows inserted since; a query through the cellbase returns both.
C24_Witness ==
    /\ TABLE_NAME \in celltables
    /\ Len(rows) = 2
    /\ ColumnNames(Table) = Schema
    /\ Len(Cellbase_query(TABLE_NAME, NoWhere, Cellbase).ret) = 2

\* C25: cellbase[name] = table raises AssertionError and leaves the cellbase
\* as it was, for a name with a table and for a name without one.
C25_SetItemRefused ==
    \A worksheet_name \in Names, celltable \in {LocalCreated, NoTable, Table} :
        LET r == Cellbase__setitem__(worksheet_name, celltable, Cellbase)
        IN  r.err = "AssertionError" /\ r.cb = Cellbase

\* A table is assigned under TABLE_NAME, which holds a table with rows, and
\* under a name that has none.
C25_Witness ==
    /\ TABLE_NAME \in celltables
    /\ "Other" \notin celltables
    /\ Len(rows) >= 1
    /\ Cellbase__setitem__(TABLE_NAME, LocalCreated, Cellbase).err = "AssertionError"
    /\ Cellbase__setitem__("Other", LocalCreated, Cellbase).err = "AssertionError"

\* C26: after a drop(name) or del cellbase[name] that returns, the cellbase
\* does not contain the name and its length is one less; when the name's
\* schema is registered, the next data operation on the name works on a new
\* table without rows: a query of everything returns nothing and leaves the
\* newly created table, an insert makes the table's only row at index 2.
C26_DropForgets ==
    \A worksheet_name \in Names :
        LET r == drop(worksheet_name, Cellbase)
            q == Cellbase_query(worksheet_name, NoWhere, r.cb)
        IN  /\ Cellbase__delitem__(worksheet_name, Cellbase) = r
            /\ r.err = "none" =>
                   /\ ~Cellbase__contains__(worksheet_name, r.cb)
                   /\ Cellbase__len__(r.cb) = Cellbase__len__(Cellbase) - 1
                   /\ worksheet_name \in r.cb.schemas =>
                          /\ q.err = "none" /\ q.ret = <<>>
                          /\ q.cb.t = LocalCreated
                          /\ Cellbase__contains__(worksheet_name, q.cb)
                          /\ \A value_in_dict \in FullData :
                                 LET i == Cellbase_insert(worksheet_name,
                                                          value_in_dict, r.cb)
                                 IN  /\ i.err = "none" /\ i.ret = 2
                                     /\ KeySet(i.cb.t.rows) = {2}

\* TABLE_NAME's table holds two rows and is dropped; the query that follows
\* returns nothing.
C26_Witness ==
    /\ TABLE_NAME \in celltables
    /\ Len(rows) = 2
    /\ drop(TABLE_NAME, Cellbase).err = "none"
    /\ Cellbase_query(TABLE_NAME, NoWhere, drop(TABLE_NAME, Cellbase).cb).ret = <<>>

\* ------------------------------------------------- claims on item access

\* The callables a caller indexes the table with.
RowPreds == {Pred(S) : S \in SUBSET RowIdxs}

\* The row indices of the table that satisfy a callable.
Satisfying(pred) == {k \in KeySet(rows) : k \in pred.s}

\* C27: table[pred] = data with a callable pred.  When no row index of the
\* table satisfies pred the call warns and leaves the table as it was, no row
\* inserted.  When some do, the table keeps its row indices, every row whose
\* index satisfies pred reads as data on every column, and every other row
\* reads as before.
C27_SetItemByPredicate ==
    \A pred \in RowPreds, value \in FullData :
        LET r == IF backend = "local" THEN Celltable__setitem__(pred, value, Table)
                 ELSE g_Celltable__setitem__(pred, value, Table)
        IN  IF Satisfying(pred) = {}
            THEN r.err = "none" /\ r.warned /\ r.t = Table
            ELSE /\ r.err = "none"
                 /\ ~r.warned
                 /\ KeySet(r.t.rows) = KeySet(rows)
                 /\ \A k \in KeySet(rows) :
                        RowRecord(k, r.t).values
                            = IF k \in Satisfying(pred) THEN value
                              ELSE RowRecord(k, Table).values

\* The length the table reports: Celltable.__len__, GoogleCelltable.__len__.
LenOf(t) == IF backend = "local" THEN Celltable__len__(t) ELSE g_len(t)

\* The values of the rows of t, in the order query() returns them.
ReadAll(t) ==
    LET all == query(NoWhere, t).val
    IN  [i \in 1..Len(all) |-> all[i].values]

\* The values of the rows of the table whose index is not in gone, in the
\* order of rows.
Survivors(gone) ==
    LET kept == SelectSeq(rows, LAMBDA e : e.k \notin gone)
    IN  [i \in 1..Len(kept) |-> RowRecord(kept[i].k, Table).values]

\* C28: del table[k], k a row index or a callable, returns and removes the
\* rows whose index matches k and no other: the length drops by their number
\* and the rows left are the unmatched rows, in their order, with their
\* values.  When no index matches, the table is as it was.
C28_DelItem ==
    \A k \in RowConds :
        LET r == IF backend = "local" THEN Celltable__delitem__(k, Table)
                 ELSE g_Celltable__delitem__(k, Table)
            gone == {i \in KeySet(rows) : i \in k.s}
        IN  /\ r.err = "none"
            /\ LenOf(r.t) = LenOf(Table) - Cardinality(gone)
            /\ ReadAll(r.t) = Survivors(gone)
            /\ gone = KeySet(rows) => LenOf(r.t) = 0
            /\ gone = {} => r.t = Table

Matching(where) ==
    {k \in KeySet(rows) :
        \A i \in 1..Len(where.clauses) : ClauseHolds(where.clauses[i], k, Table)}

\* C30: the row indices of the records query(where) returns go strictly
\* upwards, so no row is returned twice, and they are the indices of the
\* rows on which every clause holds; for every where, those of two literal
\* column clauses and of a row-index clause with a literal column clause
\* included.
C30_QueryOnceAscending ==
    \A where \in Wheres :
        LET q == query(where, Table)
            row_idxs == RowIdxsOf(q.val)
        IN  q.err = "none" =>
                /\ \A i \in 1..(Len(row_idxs) - 1) : row_idxs[i] < row_idxs[i + 1]
                /\ {row_idxs[i] : i \in 1..Len(row_idxs)} = Matching(where)



\* -------------------------------------------- the two indices of a table

\* For every column c, cols[c] has one cell per row, in row order, and the
\* cell at position r - 2 (counted from 0) has the value and the row number
\* of rows[r][c].
ColsMirrorRows(t) ==
    \A c \in DOMAIN t.cols :
        /\ Len(t.cols[c]) = Len(t.rows)
        /\ \A i \in 1..Len(t.rows) :
               LET r == t.rows[i].k
               IN  /\ r - 1 \in 1..Len(t.cols[c])
                   /\ t.heap[t.cols[c][r - 1]].value = t.heap[t.rows[i].cells[c]].value
                   /\ t.heap[t.cols[c][r - 1]].row = t.heap[t.rows[i].cells[c]].row

\* query({c: v}) returns exactly the rows for which query() reports the
\* value v under c, in the same order.
QueryByColumn(t) ==
    \A c \in DOMAIN t.cols, v \in Vals :
        LET all   == query(NoWhere, t)
            some  == query(Dict(<<Clause(c, Lit(v))>>), t)
            HasV(record) == record.values[c] = v
        IN  /\ all.err = "none"
            /\ some.err = "none"
            /\ some.val = SelectSeq(all.val, HasV)

\* cols is in line with rows, and a query by column value sees what a full
\* query reports.
TwoIndices(t) == ColsMirrorRows(t) /\ QueryByColumn(t)

\* C31: on the local table the index by column stays in line with the index
\* by row: from a table where it is in line, every call of insert, update,
\* delete or traverse that returns leaves cols[c] with one cell per row whose
\* value and row number are those of rows[r][c], and leaves query({c: v})
\* returning exactly the rows whose value under c is v.
C31_ColsMirrorRows ==
    (backend = "local" /\ TwoIndices(Table)) =>
        /\ \A value_in_dict \in FullData :
               LET r == insert(value_in_dict, Table)
               IN  r.err = "none" => TwoIndices(r.t)
        /\ \A value_in_dict \in DataWithRowIdx :
               LET r == update(value_in_dict, NoWhere, Table)
               IN  r.err = "none" => TwoIndices(r.t)
        /\ \A value_in_dict \in FullData, where \in LitWheres :
               LET r == update(value_in_dict, where, Table)
               IN  r.err = "none" => TwoIndices(r.t)
        /\ \A where \in Wheres :
               LET r == delete(where, Table)
               IN  r.err = "none" => TwoIndices(r.t)
        /\ \A fn \in Fns, where \in LitWheres \cup {NoWhere}, select \in Selects :
               LET r == traverse(fn, where, select, Table)
               IN  r.err = "none" => TwoIndices(r.t)


\* ----------------------------------------- the remote table's construction

\* C32: a remote table, constructed from any fetched worksheet (rows
\* without values between rows with values and after them included) and
\* after every insert, reports as its length _max_row - 1 the number of
\* entries of rows, and the keys of rows are exactly 2.._max_row.
C32_RemoteLength ==
    /\ g_len(Table) = Len(rows)
    /\ KeySet(rows) = 2.._max_row

\* C33: in a remote table constructed from any fetched worksheet, every row
\* of rows has a cell under every schema column (a row whose first schema
\* column is empty and a later one is not included), and every list of cols
\* is as long as rows.
C33_RemoteRowsComplete ==
    calls = 0 =>
        /\ \A i \in 1..Len(rows) :
               \A j \in 1..Len(col_ids) : col_ids[j].value \in DOMAIN rows[i].cells
        /\ \A c \in DOMAIN cols : Len(cols[c]) = Len(rows)


\* ------------------------------------------------------- item assignment

\* table[k] = value on the table's backend, k a row index.
Assigned(k, value) ==
    IF backend = "local" THEN Celltable__setitem__(Lit(k), value, Table)
    ELSE g_Celltable__setitem__(Lit(k), value, Table)

\* k in t, and t[k] is the one record of row k with the values of value.
Yields(k, value, t) ==
    /\ Celltable__contains__(Lit(k), t).err = "none"
    /\ Celltable__contains__(Lit(k), t).val
    /\ Celltable__getitem__(Lit(k), t).err = "none"
    /\ Celltable__getitem__(Lit(k), t).val = <<[row_idx |-> k, values |-> value]>>

\* C34 as stated: after table[k] = data with a row index k returns, k is in
\* the table and table[k] yields data, whether k was in the table before
\* (update) or not (insert).
C34_SetItemContains ==
    \A k \in RowIdxs, value \in FullData :
        LET r == Assigned(k, value)
        IN  r.err = "none" => Yields(k, value, r.t)

\* C34 as amended: after table[k] = data with a row index k that the table
\* contains returns, k is in the table and table[k] yields data.  (For a k
\* the table does not contain, data goes to insert, which appends it as the
\* last row whatever k is.)
C34_SetItemUpdates ==
    \A k \in RowIdxs, value \in FullData :
        LET r == Assigned(k, value)
        IN  (r.err = "none" /\ Celltable__contains__(Lit(k), Table).val) =>
                Yields(k, value, r.t)

\* A local table of two rows, one of them assigned values it did not hold.
C34_Witness ==
    /\ backend = "local"
    /\ Len(rows) = 2
    /\ \E k \in KeySet(rows), value \in FullData :
           LET r == Assigned(k, value)
           IN  /\ Celltable__contains__(Lit(k), Table).val
               /\ RowRecord(k, Table).values # value
               /\ r.err = "none"
               /\ Yields(k, value, r.t)
               /\ Len(r.t.rows) = 2


\* ------------------------------------- the worksheet around a local delete

\* The values of row 1 of the worksheet, None where it holds no cell.
HeaderRow(t) ==
    [c \in 1..Max({p[2] : p \in DOMAIN ws_cells}) |->
        IF <<1, c>> \in DOMAIN t.ws_cells THEN t.heap[t.ws_cells[<<1, c>>]].value
        ELSE NoHeader]

\* The physical columns that carry no column of the schema.
OutsideColumns ==
    {p[2] : p \in DOMAIN ws_cells} \ {col_ids[i].col_idx : i \in 1..Len(col_ids)}

\* The worksheet t holds a cell with value v at (r, c).
HoldsAt(t, r, c, v) ==
    /\ <<r, c>> \in DOMAIN t.ws_cells
    /\ t.heap[t.ws_cells[<<r, c>>]].value = v

\* C35: a local delete that returns leaves row 1 of the worksheet as it
\* was, and every cell of a row that is not deleted, in a physical column
\* outside the schema, keeps its value (looked up at the row's index before
\* the delete and at its index after it).
C35_DeleteKeepsOthers ==
    backend = "local" =>
        \A where \in Wheres :
            LET r == delete(where, Table)
                D == {k \in KeySet(rows) : \E i \in 1..Len(query(where, Table).val) :
                                               query(where, Table).val[i].row_idx = k}
                NewIdx(k) == k - Cardinality({d \in D : d < k})
            IN  r.err = "none" =>
                    /\ HeaderRow(r.t) = HeaderRow(Table)
                    /\ \A k \in KeySet(rows) \ D, c \in OutsideColumns :
                           <<k, c>> \in DOMAIN ws_cells =>
                               LET v == heap[ws_cells[<<k, c>>]].value
                               IN  HoldsAt(r.t, k, c, v) \/ HoldsAt(r.t, NewIdx(k), c, v)


\* ------------------------------------------------- the frame of a traverse

\* The selects a caller gives: none, and every list of names among the
\* schema's columns and one name that is no column.
NamedSelects ==
    {AllColumns} \cup {Select(names) : names \in SUBSET (SchemaNames \cup {"nosuch"})}

\* traverse on the table's backend.
Traversed(fn, where, select) ==
    IF backend = "local" THEN traverse(fn, where, select, Table)
    ELSE g_traverse(fn, where, select, Table)

\* The cells under (row k, column c) with k outside `matched` or c outside
\* the select read in `after` as they read now, and no row came or went.
FrameKept(matched, select, after) ==
    /\ KeySet(after.rows) = KeySet(rows)
    /\ \A k \in KeySet(rows), c \in SchemaNames :
           (k \notin matched \/ c \notin Selected(select, Table)) =>
               RowRecord(k, after).values[c] = RowRecord(k, Table).values[c]

\* C36: a traverse(fn, where, select) that returns has changed no cell
\* outside the rows on which where holds (the rows query(where) returns) and
\* outside the columns select names (every schema column without a select):
\* such cells read as before, so fn was not given them; and a name in select
\* that is no schema column makes no difference to the call.
C36_TraverseFrame ==
    \A fn \in Fns \ {NotCallable}, where \in LitWheres \cup {NoWhere},
       select \in NamedSelects :
        LET r       == Traversed(fn, where, select)
            matched == query(where, Table)
            known   == IF select.none THEN select
                       ELSE Select(select.names \cap SchemaNames)
            s       == Traversed(fn, where, known)
        IN  /\ (r.err = "none" /\ matched.err = "none") =>
                   FrameKept({matched.val[i].row_idx : i \in 1..Len(matched.val)},
                             select, r.t)
            /\ r.err = s.err
            /\ r.ret = s.ret
            /\ r.t = s.t

====
